---- MODULE Spec2Model ----
(***************************************************************************)
(* Endfield mod loader: the deployment core of launcher/core (deploy.py,   *)
(* active_pack.py, config.py) and the handlers of launcher/gui.py that     *)
(* drive it.                                                               *)
(*                                                                         *)
(* A directory tree is a function from the paths of its files (sequences   *)
(* of path segments) to the content of each file (a content id).  A        *)
(* directory exists when a file lies beneath it.                           *)
(***************************************************************************)
EXTENDS Integers, Sequences, FiniteSets, TLC

VARIABLES
    mods_root,      \* tree seen from <project>/mods, the generated _active folder included;
                    \* a path that begins with ".." or "/" lies outside <project>/mods
    active_exists,  \* the directory <project>/mods/_active exists (it may be empty)
    enabled_mods,   \* AppConfig.enabled_mods, as saved in config.json
    game_exe,       \* AppConfig.game_exe is set
    game,           \* tree of the game root (the folder of the game exe)
    vfs_exists,     \* the directory Endfield_Data/Persistent/VFS exists
    safe_receipt,   \* <safe_root>/receipt.json of the safe-mount deploy
    receipt,        \* <project>/deploy/receipt.json: the "files" map of the ledger
    backup,         \* tree of <project>/deploy/backup
    build_timer,    \* the single-shot QTimer of MainWindow is running
    out,            \* result of the last detector / builder call of SpecDetect
    last,           \* history: the handler that ran last
    cycle,          \* history: the deploys since the last restore, and the disk before them
    steps           \* history: how many more handlers the run may take

vars == <<mods_root, active_exists, enabled_mods, game_exe, game, vfs_exists,
          safe_receipt, receipt, backup, build_timer, out, last, cycle, steps>>

-----------------------------------------------------------------------------
(* Bounds of the model *)

MaxEnabled == 2
MaxSteps == 6
MaxUpdates == 1
MaxGateSteps == 4
MaxListLen == 3
MaxBuildListLen == 2
MaxBuildSteps == 2
MaxLossSteps == 5

-----------------------------------------------------------------------------
(* Paths and trees *)

Range(s) == {s[i] : i \in 1..Len(s)}

EmptyTree == [p \in {} |-> 0]

IsPrefix(prefix, p) ==
    /\ Len(prefix) <= Len(p)
    /\ \A i \in 1..Len(prefix) : p[i] = prefix[i]

RelativeTo(p, prefix) == SubSeq(p, Len(prefix) + 1, Len(p))

\* the files at or beneath path p
Under(tree, p) == {q \in DOMAIN tree : IsPrefix(p, q)}

Exists(tree, p) == Under(tree, p) # {}

IsFile(tree, p) == p \in DOMAIN tree

IsDir(tree, p) == Exists(tree, p) /\ ~IsFile(tree, p)

Restrict(tree, S) == [p \in (DOMAIN tree) \cap S |-> tree[p]]

Merge(dst, src) ==
    [p \in (DOMAIN dst) \cup (DOMAIN src) |-> IF p \in DOMAIN src THEN src[p] ELSE dst[p]]

\* shutil.rmtree(p) / Path.unlink(p)
RmTree(tree, p) == Restrict(tree, (DOMAIN tree) \ Under(tree, p))

\* the files of srcTree at or beneath srcPath, re-rooted at dstPath
Rebased(srcTree, srcPath, dstPath) ==
    [q \in {dstPath \o RelativeTo(p, srcPath) : p \in Under(srcTree, srcPath)}
        |-> srcTree[srcPath \o RelativeTo(q, dstPath)]]

\* shutil.copytree(src, dst, dirs_exist_ok=True); shutil.copy2(src, dst) for a file
CopyTree(dstTree, dstPath, srcTree, srcPath) ==
    Merge(dstTree, Rebased(srcTree, srcPath, dstPath))

\* shutil.copy2(src, dst) of one file: into dst when dst is a directory
CopyFile(dstTree, dstPath, content) ==
    IF IsDir(dstTree, dstPath)
    THEN Merge(dstTree, (dstPath \o <<dstPath[Len(dstPath)]>>) :> content)
    ELSE Merge(dstTree, dstPath :> content)

-----------------------------------------------------------------------------
(* Entries of the enabled list.  An entry is the string made of its        *)
(* segments joined by its separator: [segs |-> <<"configs","A","">>,       *)
(* sep |-> "/"] is "configs/A/".                                           *)

Entry(segs) == [segs |-> segs, sep |-> "/"]

\* rel.replace("\\", "/")
ReplaceBackslash(e) == [e EXCEPT !.sep = "/"]

RECURSIVE LStripEmpty(_)
LStripEmpty(s) == IF s # <<>> /\ Head(s) = "" THEN LStripEmpty(Tail(s)) ELSE s

RECURSIVE RStripEmpty(_)
RStripEmpty(s) ==
    IF s # <<>> /\ s[Len(s)] = "" THEN RStripEmpty(SubSeq(s, 1, Len(s) - 1)) ELSE s

\* str.strip("/"): only "/" characters are stripped
StripSlash(e) ==
    IF e.sep = "/" THEN [e EXCEPT !.segs = RStripEmpty(LStripEmpty(e.segs))] ELSE e

\* rel_norm = rel.replace("\\", "/").strip("/"): the identifier the deployers record
RelNorm(e) == StripSlash(ReplaceBackslash(e)).segs

\* what the file system makes of a path with ".." segments: each one steps out of
\* the folder before it; a ".." that is left at the front steps out of the base
RECURSIVE ResolveOnto(_, _)
ResolveOnto(done, todo) ==
    IF todo = <<>> THEN done
    ELSE IF Head(todo) = ".." /\ done # <<>> /\ done[Len(done)] \notin {"..", "/"}
    THEN ResolveOnto(SubSeq(done, 1, Len(done) - 1), Tail(todo))
    ELSE IF Head(todo) = ".." /\ done # <<>> /\ done[Len(done)] = "/"
    THEN ResolveOnto(done, Tail(todo))
    ELSE ResolveOnto(Append(done, Head(todo)), Tail(todo))

Resolve(p) == ResolveOnto(<<>>, p)

\* Path.exists() of a path with ".." segments: the file system follows each ".."
\* out of a folder that is there
ExistsPath(tree, p) ==
    /\ Exists(tree, Resolve(p))
    /\ \A i \in 1..Len(p) :
          p[i] = ".." => ~IsFile(tree, Resolve(SubSeq(p, 1, i - 1)))
                         /\ Exists(tree, Resolve(SubSeq(p, 1, i - 1)))

\* (mods_root / rel_norm).resolve(): empty segments vanish in a path
ModFolder(rel_norm) == Resolve(SelectSeq(rel_norm, LAMBDA s : s # ""))

-----------------------------------------------------------------------------
(* deploy.py: asset replacement with the receipt ledger *)

ASSET_BACKUP_DIRNAME == "backup"

AllowedAssetRootsDeploy ==
    {"Endfield_Data", "resources", "game_files", "translations", "plugins"}

\* an allow-list test that lets every path through
IsAllowedAssetRelpathAny(p) == Len(p) >= 1

\* rel_game_path.startswith(root) for a root "name/"
IsAllowedAssetRelpath(p) == Len(p) >= 2 /\ p[1] \in AllowedAssetRootsDeploy

\* the ledger's "no backup": None
NoBackup == <<>>

EmptyEntry == [backup |-> NoBackup, mods |-> <<>>]

EmptyReceipt == [p \in {} |-> EmptyEntry]

\* a _backup_original_once that returns the backup location without copying to it
BackupOriginalOnceNoCopy(g, bk, rel_game_path) ==
    IF ~Exists(g, rel_game_path)
    THEN [rel |-> NoBackup, store |-> bk]
    ELSE [rel |-> <<ASSET_BACKUP_DIRNAME>> \o rel_game_path, store |-> bk]

\* _backup_original_once: the backup_rel returned and the backup store after it
BackupOriginalOnce(g, bk, rel_game_path) ==
    LET backup_rel == <<ASSET_BACKUP_DIRNAME>> \o rel_game_path
    IN  IF ~Exists(g, rel_game_path)
        THEN [rel |-> NoBackup, store |-> bk]
        ELSE IF Exists(bk, backup_rel)
        THEN [rel |-> backup_rel, store |-> bk]
        ELSE [rel |-> backup_rel, store |-> CopyTree(bk, backup_rel, g, rel_game_path)]

\* the body of the loop over one mod's files (deploy.py 407-428)
DeployAssetFile(st, rel_norm, content, rel_game_path) ==
    LET b == BackupOriginalOnce(st.game, st.backup, rel_game_path)
        entry == IF rel_game_path \in DOMAIN st.files
                 THEN st.files[rel_game_path] ELSE EmptyEntry
        backup_field == IF b.rel # NoBackup THEN b.rel ELSE entry.backup
        mods_list == IF rel_norm \in Range(entry.mods)
                     THEN entry.mods ELSE Append(entry.mods, rel_norm)
        new_entry == [backup |-> backup_field, mods |-> mods_list]
    IN  [game   |-> CopyFile(st.game, rel_game_path, content),
         files  |-> [p \in (DOMAIN st.files) \cup {rel_game_path} |->
                        IF p = rel_game_path THEN new_entry ELSE st.files[p]],
         backup |-> b.store,
         copied |-> st.copied + 1]

RECURSIVE DeployAssetFiles(_, _, _, _, _)
DeployAssetFiles(st, tree, rel_norm, mod_dir, files) ==
    IF files = {} THEN st
    ELSE LET p == CHOOSE q \in files : TRUE
         IN  DeployAssetFiles(DeployAssetFile(st, rel_norm, tree[mod_dir \o p], p),
                              tree, rel_norm, mod_dir, files \ {p})

\* the files of a mod folder under an allow-listed root (deploy.py 395-401, 509-514)
AssetFilesOf(tree, mod_dir) ==
    {rel \in {RelativeTo(p, mod_dir) : p \in Under(tree, mod_dir)} :
        IsAllowedAssetRelpath(rel)}

RECURSIVE DeployAssetsLoop(_, _, _, _)
DeployAssetsLoop(st, tree, enabled, i) ==
    IF i > Len(enabled) THEN st
    ELSE LET rel_norm == RelNorm(enabled[i])
             mod_dir == ModFolder(rel_norm)
             files == AssetFilesOf(tree, mod_dir)
         IN  IF ~Exists(tree, mod_dir) \/ files = {}
             THEN DeployAssetsLoop(st, tree, enabled, i + 1)
             ELSE DeployAssetsLoop(DeployAssetFiles(st, tree, rel_norm, mod_dir, files),
                                   tree, enabled, i + 1)

\* a deploy_assets_with_receipt that starts from an empty ledger
DeployAssetsFreshLedger(tree, enabled, g, files_map, bk) ==
    DeployAssetsLoop([game |-> g, files |-> EmptyReceipt, backup |-> bk, copied |-> 0],
                     tree, enabled, 1)

\* deploy_assets_with_receipt: the game root, the ledger and the backup store after it
DeployAssetsWithReceipt(tree, enabled, g, files_map, bk) ==
    DeployAssetsLoop([game |-> g, files |-> files_map, backup |-> bk, copied |-> 0],
                     tree, enabled, 1)

\* a restore that leaves alone a destination recorded with no backup
RestoreAssetEntryKeep(g, bk, rel_game_path, entry) ==
    IF entry.backup # NoBackup /\ Exists(bk, entry.backup)
    THEN IF IsDir(bk, entry.backup)
         THEN CopyTree(RmTree(g, rel_game_path), rel_game_path, bk, entry.backup)
         ELSE CopyFile(g, rel_game_path, bk[entry.backup])
    ELSE g

\* a restore that removes the destination of an entry whose backup is missing
RestoreAssetEntryDropMissing(g, bk, rel_game_path, entry) ==
    IF entry.backup # NoBackup /\ Exists(bk, entry.backup)
    THEN IF IsDir(bk, entry.backup)
         THEN CopyTree(RmTree(g, rel_game_path), rel_game_path, bk, entry.backup)
         ELSE CopyFile(g, rel_game_path, bk[entry.backup])
    ELSE RmTree(g, rel_game_path)

\* one ledger entry of restore_assets_with_receipt (deploy.py 460-490)
RestoreAssetEntry(g, bk, rel_game_path, entry) ==
    IF entry.backup # NoBackup
    THEN IF Exists(bk, entry.backup)
         THEN IF IsDir(bk, entry.backup)
              THEN CopyTree(RmTree(g, rel_game_path), rel_game_path, bk, entry.backup)
              ELSE CopyFile(g, rel_game_path, bk[entry.backup])
         ELSE g
    ELSE RmTree(g, rel_game_path)

RECURSIVE RestoreAssetsLoop(_, _, _, _)
RestoreAssetsLoop(g, bk, files_map, todo) ==
    IF todo = {} THEN g
    ELSE LET p == CHOOSE q \in todo : TRUE
         IN  RestoreAssetsLoop(RestoreAssetEntry(g, bk, p, files_map[p]),
                               bk, files_map, todo \ {p})

\* restore_assets_with_receipt(clear_receipt=True): the game root and the ledger after it
RestoreAssetsWithReceipt(g, files_map, bk) ==
    [game  |-> RestoreAssetsLoop(g, bk, files_map, DOMAIN files_map),
     files |-> EmptyReceipt]

-----------------------------------------------------------------------------
(* File contents.  A manifest.json is a file like any other; ParseJson     *)
(* gives what json.loads makes of the text of a content id.                *)

NoCopy == [kind |-> "absent", items |-> <<>>]

CopyList(items) == [kind |-> "list", items |-> items]

\* texts of the manifest.json files of the model
ManifestEmpty == 50          \* "" or white space only
ManifestInvalid == 51        \* not JSON
ManifestNotObject == 52      \* "[1, 2]": JSON, but no object
ManifestConfigFile == 53     \* {"type": "config", "copy": ["settings.ini"]}
ManifestConfigDir == 54      \* {"type": "config", "copy": ["data/"]}
ManifestConfigNoCopy == 55   \* {"type": "config"}
ManifestFolderFile == 56     \* {"copy": ["settings.ini"]}
ManifestConfigMissing == 57  \* {"type": "config", "copy": ["gone.ini", "settings.ini"]}
ManifestConfigParent == 58   \* {"type": "config", "copy": [".."]}
ManifestConfigInner == 59    \* {"type": "config", "copy": ["../A/settings.ini", "data/../settings.ini"]}
ManifestConfigTrailing == 60 \* {"type": "config", "copy": ["Texture/.."]}
ManifestConfigEmptyCopy == 63  \* {"type": "config", "copy": []}
ManifestConfigCopyString == 64 \* {"type": "config", "copy": "x"}

ManifestTexts ==
    {ManifestEmpty, ManifestInvalid, ManifestNotObject, ManifestConfigFile,
     ManifestConfigDir, ManifestConfigNoCopy, ManifestFolderFile, ManifestConfigMissing,
     ManifestConfigParent, ManifestConfigInner, ManifestConfigTrailing,
     ManifestConfigEmptyCopy, ManifestConfigCopyString}

\* text.strip() and json.loads(text) of a file's text
ParseJson(content) ==
    CASE content = ManifestEmpty -> [kind |-> "empty"]
      [] content = ManifestNotObject -> [kind |-> "other"]
      [] content = ManifestConfigFile ->
            [kind |-> "object", type |-> "config",
             copy |-> CopyList(<<Entry(<<"settings.ini">>)>>)]
      [] content = ManifestConfigDir ->
            [kind |-> "object", type |-> "config",
             copy |-> CopyList(<<Entry(<<"data", "">>)>>)]
      [] content = ManifestConfigNoCopy ->
            [kind |-> "object", type |-> "config", copy |-> NoCopy]
      [] content = ManifestFolderFile ->
            [kind |-> "object", type |-> "",
             copy |-> CopyList(<<Entry(<<"settings.ini">>)>>)]
      [] content = ManifestConfigMissing ->
            [kind |-> "object", type |-> "config",
             copy |-> CopyList(<<Entry(<<"gone.ini">>), Entry(<<"settings.ini">>)>>)]
      [] content = ManifestConfigParent ->
            [kind |-> "object", type |-> "config",
             copy |-> CopyList(<<Entry(<<"..">>)>>)]
      [] content = ManifestConfigInner ->
            [kind |-> "object", type |-> "config",
             copy |-> CopyList(<<Entry(<<"..", "A", "settings.ini">>),
                                 Entry(<<"data", "..", "settings.ini">>)>>)]
      [] content = ManifestConfigTrailing ->
            [kind |-> "object", type |-> "config",
             copy |-> CopyList(<<Entry(<<"Texture", "..">>)>>)]
      [] content = ManifestConfigEmptyCopy ->
            [kind |-> "object", type |-> "config", copy |-> CopyList(<<>>)]
      [] content = ManifestConfigCopyString ->
            [kind |-> "object", type |-> "config",
             copy |-> [kind |-> "string", items |-> <<Entry(<<"x">>)>>]]
      [] OTHER -> [kind |-> "invalid"]

\* Path(a) / b: empty segments vanish
PathSegs(segs) == SelectSeq(segs, LAMBDA s : s # "")

-----------------------------------------------------------------------------
(* Python's order of strings, on the names of the model.  No name of the   *)
(* model is the beginning of another, so two paths compare as their first  *)
(* differing segments do.                                                  *)

SegOrder ==
    <<"", "..", "/", "A", "B", "Buffer", "Deep", "Endfield_Data", "Foo", "Junk",
      "Kit", "M1", "M2", "Mods", "Pack", "Shaders", "Sub", "TEXTURE", "Texture",
      "_active", "a",
      "a.bin", "abs", "assets", "b", "b.buf", "buffer", "configs", "d3dx.ini",
      "data", "deep", "desktop.ini", "endfield_data", "foo", "gone.ini", "junk",
      "kit", "m1", "manifest.json", "misc", "notes.txt", "old.ini", "pack", "plugins",
      "r.txt", "resources", "secret.txt", "settings.ini", "shaders", "skins",
      "sub", "t.dds", "texture", "up", "x", "x.ini", "y.txt">>

SegRank(s) ==
    IF \E i \in DOMAIN SegOrder : SegOrder[i] = s
    THEN CHOOSE i \in DOMAIN SegOrder : SegOrder[i] = s
    ELSE Len(SegOrder) + 1

RECURSIVE PathLess(_, _)
PathLess(a, b) ==
    IF a = <<>> THEN b # <<>>
    ELSE IF b = <<>> THEN FALSE
    ELSE IF Head(a) = Head(b) THEN PathLess(Tail(a), Tail(b))
    ELSE SegRank(Head(a)) < SegRank(Head(b))

\* conflicts.sort(key=lambda x: x["path"]): insertion into a sorted list
RECURSIVE InsertByPath(_, _)
InsertByPath(x, s) ==
    IF s = <<>> THEN <<x>>
    ELSE IF PathLess(x.path, Head(s).path) THEN <<x>> \o s
    ELSE <<Head(s)>> \o InsertByPath(x, Tail(s))

RECURSIVE SortByPath(_)
SortByPath(s) ==
    IF s = <<>> THEN <<>>
    ELSE InsertByPath(s[Len(s)], SortByPath(SubSeq(s, 1, Len(s) - 1)))

\* sorted(set(mods))
RECURSIVE SetToSortedSeq(_)
SetToSortedSeq(S) ==
    IF S = {} THEN <<>>
    ELSE LET x == CHOOSE y \in S : \A z \in S : z = y \/ PathLess(y, z)
         IN  <<x>> \o SetToSortedSeq(S \ {x})

SortedSet(mods) == SetToSortedSeq(Range(mods))

-----------------------------------------------------------------------------
(* deploy.py: the two conflict detectors *)

\* Path.rglob("*") yields in directory order, which no caller may rely on: the
\* model lists a set of paths from the last name to the first
RECURSIVE ListDir(_)
ListDir(S) ==
    IF S = {} THEN <<>>
    ELSE LET x == CHOOSE y \in S : \A z \in S : z = y \/ PathLess(z, y)
         IN  <<x>> \o ListDir(S \ {x})

\* writers.setdefault(key, []).append(rel_norm), on a dict kept in insertion order
AddWriter(writers, key, rel_norm) ==
    IF \E i \in 1..Len(writers) : writers[i].path = key
    THEN [i \in 1..Len(writers) |->
            IF writers[i].path = key
            THEN [path |-> key, mods |-> Append(writers[i].mods, rel_norm)]
            ELSE writers[i]]
    ELSE Append(writers, [path |-> key, mods |-> <<rel_norm>>])

RECURSIVE AddWriters(_, _, _)
AddWriters(writers, keys, rel_norm) ==
    IF keys = <<>> THEN writers
    ELSE AddWriters(AddWriter(writers, Head(keys), rel_norm), Tail(keys), rel_norm)

\* a loop over writers.items() that counts the entries of mods, not the distinct ones
RECURSIVE ConflictsOfListed(_)
ConflictsOfListed(writers) ==
    IF writers = <<>> THEN <<>>
    ELSE (IF Len(Head(writers).mods) > 1
          THEN <<[path |-> Head(writers).path, mods |-> SortedSet(Head(writers).mods)]>>
          ELSE <<>>)
         \o ConflictsOfListed(Tail(writers))

\* the loop over writers.items() (deploy.py 211-215, 517-521)
RECURSIVE ConflictsOf(_)
ConflictsOf(writers) ==
    IF writers = <<>> THEN <<>>
    ELSE LET uniq == SortedSet(Head(writers).mods)
         IN  (IF Len(uniq) > 1
              THEN <<[path |-> Head(writers).path, mods |-> uniq]>> ELSE <<>>)
             \o ConflictsOf(Tail(writers))

RECURSIVE AssetWritersLoop(_, _, _, _)
AssetWritersLoop(writers, tree, enabled, i) ==
    IF i > Len(enabled) THEN writers
    ELSE LET rel_norm == RelNorm(enabled[i])
             mod_dir == ModFolder(rel_norm)
         IN  IF ~Exists(tree, mod_dir)
             THEN AssetWritersLoop(writers, tree, enabled, i + 1)
             ELSE AssetWritersLoop(
                      AddWriters(writers, ListDir(AssetFilesOf(tree, mod_dir)), rel_norm),
                      tree, enabled, i + 1)

DetectEnabledAssetConflicts(tree, enabled) ==
    SortByPath(ConflictsOf(AssetWritersLoop(<<>>, tree, enabled, 1)))

\* _read_json of deploy.py: "raise" when json.loads raises
ReadJson(content) ==
    LET data == ParseJson(content)
    IN  IF data.kind = "empty" THEN [kind |-> "object", type |-> "", copy |-> NoCopy]
        ELSE data

\* item.replace("\\", "/").lstrip("/") of each copy item, the empty ones dropped
RECURSIVE NormCopyItems(_)
NormCopyItems(items) ==
    IF items = <<>> THEN <<>>
    ELSE LET norm == LStripEmpty(ReplaceBackslash(Head(items)).segs)
         IN  (IF norm # <<>> THEN <<norm>> ELSE <<>>) \o NormCopyItems(Tail(items))

\* _list_manifest_copy_paths: [raised, paths]
ListManifestCopyPaths(tree, mod_folder) ==
    LET manifest == mod_folder \o <<"manifest.json">>
    IN  IF ~Exists(tree, manifest) THEN [raised |-> FALSE, paths |-> <<>>]
        ELSE LET data == ReadJson(tree[manifest])
             IN  IF data.kind # "object" THEN [raised |-> TRUE, paths |-> <<>>]
                 ELSE [raised |-> FALSE, paths |-> NormCopyItems(data.copy.items)]

\* the loop over copy_entries of one mod (deploy.py 197-209)
RECURSIVE PathWritersOfMod(_, _, _, _, _)
PathWritersOfMod(writers, tree, rel_norm, mod_folder, entries) ==
    IF entries = <<>> THEN writers
    ELSE LET entry == Head(entries)
             src == mod_folder \o PathSegs(entry)
             dest_base == PathSegs(rel_norm) \o PathSegs(entry)
             keys == IF IsDir(tree, src)
                     THEN ListDir({RelativeTo(f, mod_folder) : f \in Under(tree, src)})
                     ELSE <<dest_base>>
         IN  PathWritersOfMod(AddWriters(writers, keys, rel_norm),
                              tree, rel_norm, mod_folder, Tail(entries))

\* the loop over enabled_mods (deploy.py 187-209): [raised, writers]
RECURSIVE PathWritersLoop(_, _, _, _)
PathWritersLoop(writers, tree, enabled, i) ==
    IF i > Len(enabled) THEN [raised |-> FALSE, writers |-> writers]
    ELSE LET rel_norm == RelNorm(enabled[i])
             mod_folder == ModFolder(rel_norm)
             copy_entries == ListManifestCopyPaths(tree, mod_folder)
         IN  IF ~Exists(tree, mod_folder)
             THEN PathWritersLoop(writers, tree, enabled, i + 1)
             ELSE IF copy_entries.raised
             THEN [raised |-> TRUE, writers |-> writers]
             ELSE PathWritersLoop(
                      PathWritersOfMod(writers, tree, rel_norm, mod_folder,
                                       copy_entries.paths),
                      tree, enabled, i + 1)

\* detect_enabled_path_conflicts: [raised, conflicts]
DetectEnabledPathConflicts(tree, enabled) ==
    LET w == PathWritersLoop(<<>>, tree, enabled, 1)
    IN  [raised |-> w.raised,
         conflicts |-> IF w.raised THEN <<>> ELSE SortByPath(ConflictsOf(w.writers))]

-----------------------------------------------------------------------------
(* active_pack.py: the builder of mods/_active *)

ActiveRoot == <<"_active">>

\* _read_manifest_json: an empty text raises like an invalid one
ReadManifestJson(content) ==
    LET data == ParseJson(content)
    IN  IF data.kind = "empty" THEN [kind |-> "invalid"] ELSE data

\* a build_active that takes every mod for a config mod
BuildModTypeConfig(tree, src) == "config"

\* the mod_type build_active reads (active_pack.py 126-134)
BuildModType(tree, src) ==
    LET manifest == src \o <<"manifest.json">>
    IN  IF ~Exists(tree, manifest) THEN "folder"
        ELSE LET data == ReadManifestJson(tree[manifest])
             IN  IF data.kind = "object" /\ data.type # "" THEN data.type ELSE "folder"

\* the traversal test of _build_config_mod (active_pack.py 81)
RejectedCopyRel(rel) ==
    \/ Len(rel) >= 2 /\ rel[1] = ".."
    \/ \E i \in 2..(Len(rel) - 1) : rel[i] = ".."

\* the loop over copy_list of _build_config_mod (active_pack.py 68-90): the files it copies
RECURSIVE BuildCopyEntries(_, _, _, _)
BuildCopyEntries(tree, src_mod, dst_mod, items) ==
    IF items = <<>> THEN EmptyTree
    ELSE LET entry == ReplaceBackslash(Head(items)).segs
             is_dir == Len(entry) >= 2 /\ entry[Len(entry)] = ""
             rel == IF is_dir THEN SubSeq(entry, 1, Len(entry) - 1) ELSE entry
             src_item == Resolve(src_mod \o PathSegs(rel))
             dst_item == Resolve(dst_mod \o PathSegs(rel))
             copied == IF entry \in {<<>>, <<"">>} \/ RejectedCopyRel(rel)
                          \/ ~ExistsPath(tree, src_mod \o PathSegs(rel))
                       THEN EmptyTree
                       ELSE Rebased(tree, src_item, dst_item)
         IN  Merge(copied, BuildCopyEntries(tree, src_mod, dst_mod, Tail(items)))

\* a _build_config_mod that always copies the whole folder
BuildConfigModWhole(tree, src_mod, dst_mod) == Rebased(tree, src_mod, dst_mod)

\* _build_config_mod: the files it puts under dst_mod
BuildConfigMod(tree, src_mod, dst_mod) ==
    LET manifest == src_mod \o <<"manifest.json">>
        data == ReadManifestJson(tree[manifest])
    IN  IF ~Exists(tree, manifest) THEN Rebased(tree, src_mod, dst_mod)
        ELSE IF data.kind # "object" THEN Rebased(tree, src_mod, dst_mod)
        ELSE IF data.copy.kind # "list" \/ data.copy.items = <<>>
        THEN Rebased(tree, src_mod, dst_mod)
        ELSE Merge((dst_mod \o <<"manifest.json">>) :> tree[manifest],
                   BuildCopyEntries(tree, src_mod, dst_mod, data.copy.items))

\* the string begins with "/": joined to a folder, an absolute path replaces it
IsAbsolute(rel) == Len(rel) >= 2 /\ rel[1] = ""

\* base / rel
JoinRaw(base, rel) ==
    IF IsAbsolute(rel) THEN <<"/">> \o PathSegs(rel) ELSE base \o PathSegs(rel)

\* base / rel, as the file system resolves it
JoinPath(base, rel) == Resolve(JoinRaw(base, rel))

\* the entries the loop of build_active skips (active_pack.py 111-121)
BuildSkips(tree, rel) ==
    \/ rel \in {<<>>, <<"">>}
    \/ Head(rel) = "_active"
    \/ ~ExistsPath(tree, JoinRaw(<<>>, rel))

\* shutil.copytree raises: the source is a file, not a folder, or the destination
\* is the source itself (an absolute entry), which copy2 refuses
BuildEntryRaises(tree, e) ==
    LET rel == ReplaceBackslash(e).segs
        src == JoinPath(<<>>, rel)
        dst == JoinPath(ActiveRoot, rel)
    IN  ~BuildSkips(tree, rel) /\ (IsFile(tree, src) \/ src = dst)

\* one pass of the loop of build_active (active_pack.py 110-139): the files it puts
\* into the tree
BuildEntry(tree, e) ==
    LET rel == ReplaceBackslash(e).segs
        src == JoinPath(<<>>, rel)
        dst == JoinPath(ActiveRoot, rel)
    IN  IF BuildSkips(tree, rel) \/ BuildEntryRaises(tree, e)
        THEN EmptyTree
        ELSE IF BuildModType(tree, src) = "config"
        THEN BuildConfigMod(tree, src, dst)
        ELSE Rebased(tree, src, dst)

\* the loop of build_active, which an exception ends: [tree, raised]
RECURSIVE BuildLoop(_, _, _)
BuildLoop(tree, enabled, i) ==
    IF i > Len(enabled) THEN [tree |-> tree, raised |-> FALSE]
    ELSE IF BuildEntryRaises(tree, enabled[i]) THEN [tree |-> tree, raised |-> TRUE]
    ELSE BuildLoop(Merge(tree, BuildEntry(tree, enabled[i])), enabled, i + 1)

\* build_active ends with an exception
BuildActiveRaises(tree, enabled) == BuildLoop(RmTree(tree, ActiveRoot), enabled, 1).raised

\* a build_active that does not delete the overlay root first
BuildActiveIncremental(tree, enabled) == BuildLoop(tree, enabled, 1).tree

\* a build_active that only deletes an overlay root it finds, and builds when
\* there is none
BuildActiveAlternate(tree, enabled) ==
    IF Exists(tree, ActiveRoot) THEN RmTree(tree, ActiveRoot)
    ELSE BuildLoop(tree, enabled, 1).tree

\* build_active: the tree of mods_root after it
BuildActive(tree, enabled) == BuildLoop(RmTree(tree, ActiveRoot), enabled, 1).tree

-----------------------------------------------------------------------------
(* deploy.py: the flat folder-style deploy *)

\* p.name.lower().endswith(".buf") or ...(".dds"), on the file names of the model
IsBufOrDdsName(name) == name \in {"t.dds", "b.buf"}

\* _looks_like_migoto_mod_folder of deploy.py
LooksLikeMigotoModFolder(tree, mod_dir) ==
    \/ Exists(tree, mod_dir \o <<"Buffer">>)
    \/ Exists(tree, mod_dir \o <<"Texture">>)
    \/ Exists(tree, mod_dir \o <<"d3dx.ini">>)
    \/ \E p \in Under(tree, mod_dir) : p # mod_dir /\ IsBufOrDdsName(p[Len(p)])

ModsOut == <<"Mods">>

RECURSIVE DeployMigotoLoop(_, _, _, _)
DeployMigotoLoop(st, tree, enabled, i) ==
    IF i > Len(enabled) THEN st
    ELSE LET rel_norm == RelNorm(enabled[i])
             src_mod_dir == ModFolder(rel_norm)
             mod_name == src_mod_dir[Len(src_mod_dir)]
             dst_mod_dir == ModsOut \o <<mod_name>>
             g == CopyTree(RmTree(st.game, dst_mod_dir), dst_mod_dir, tree, src_mod_dir)
         IN  IF ~Exists(tree, src_mod_dir) \/ ~LooksLikeMigotoModFolder(tree, src_mod_dir)
             THEN DeployMigotoLoop(st, tree, enabled, i + 1)
             ELSE DeployMigotoLoop(
                      [game |-> g,
                       deployed |-> st.deployed + 1,
                       total_files |-> st.total_files + Cardinality(Under(g, dst_mod_dir))],
                      tree, enabled, i + 1)

\* deploy_3dmigoto_folder_mods: the game root after it and its counts
Deploy3dmigotoFolderMods(tree, enabled, g) ==
    DeployMigotoLoop([game |-> g, deployed |-> 0, total_files |-> 0], tree, enabled, 1)

-----------------------------------------------------------------------------
(* deploy.py: the safe-mount deploy *)

FolderName == "EndfieldModSafe"

VfsRoot == <<"Endfield_Data", "Persistent", "VFS">>

StreamingAssetsRoot == <<"Endfield_Data", "StreamingAssets">>

\* _pick_backend_root
PickBackendRoot(g, vfs) ==
    IF vfs \/ Exists(g, VfsRoot)
    THEN [backend |-> "vfs", base |-> VfsRoot]
    ELSE [backend |-> "streamingassets", base |-> StreamingAssetsRoot]

\* get_modsafe_paths
GetModsafePaths(g, vfs) ==
    LET b == PickBackendRoot(g, vfs)
    IN  [backend |-> b.backend,
         safe_root |-> b.base \o <<FolderName>>,
         dest_active |-> b.base \o <<FolderName, "active">>]

NoSafeReceipt == [p \in {} |-> 0]

\* a deploy_endfield_modsafe that copies over the overlay deployed before
DeployEndfieldModsafeMerge(tree, src_exists, enabled, g, vfs, receipts) ==
    LET paths == GetModsafePaths(g, vfs)
        file_count == Cardinality(Under(tree, ActiveRoot))
        rec == [backend |-> paths.backend,
                enabled_mods |-> [i \in 1..Len(enabled) |-> ReplaceBackslash(enabled[i])],
                file_count |-> file_count]
    IN  IF ~src_exists
        THEN [raised |-> TRUE, game |-> g, receipts |-> receipts, file_count |-> 0]
        ELSE [raised |-> FALSE,
              game |-> CopyTree(g, paths.dest_active, tree, ActiveRoot),
              receipts |-> [b \in (DOMAIN receipts) \cup {paths.backend} |->
                               IF b = paths.backend THEN rec ELSE receipts[b]],
              file_count |-> file_count]

\* deploy_endfield_modsafe: [raised, game, receipts]
DeployEndfieldModsafe(tree, src_exists, enabled, g, vfs, receipts) ==
    LET paths == GetModsafePaths(g, vfs)
        file_count == Cardinality(Under(tree, ActiveRoot))
        rec == [backend |-> paths.backend,
                enabled_mods |-> [i \in 1..Len(enabled) |-> ReplaceBackslash(enabled[i])],
                file_count |-> file_count]
    IN  IF ~src_exists
        THEN [raised |-> TRUE, game |-> g, receipts |-> receipts, file_count |-> 0]
        ELSE [raised |-> FALSE,
              game |-> CopyTree(RmTree(g, paths.dest_active), paths.dest_active,
                                tree, ActiveRoot),
              receipts |-> [b \in (DOMAIN receipts) \cup {paths.backend} |->
                               IF b = paths.backend THEN rec ELSE receipts[b]],
              file_count |-> file_count]

\* restore_endfield_modsafe: the game root after it
RestoreEndfieldModsafe(g, vfs) == RmTree(g, GetModsafePaths(g, vfs).dest_active)

-----------------------------------------------------------------------------
(* The disk of the model *)

\* contents of shipped game files: the original and the one a game update installs
Original == 1
Updated == 2

GamePathA == <<"Endfield_Data", "a.bin">>
GamePathR == <<"resources", "r.txt">>
GameModsOld == <<"Mods", "Foo", "old.ini">>

ModM1 == <<"assets", "M1">>
ModM2 == <<"assets", "M2">>
ModA == <<"configs", "A">>
ModB == <<"configs", "B">>
ModSkinFoo == <<"skins", "Foo">>
ModMiscFoo == <<"misc", "Foo">>

\* <project>/mods with two asset mods that both replace Endfield_Data/a.bin and both
\* hold a notes.txt
ModsDisk ==
    (ModM1 \o <<"Endfield_Data", "a.bin">>) :> 11
    @@ (ModM1 \o <<"resources", "r.txt">>) :> 12
    @@ (ModM1 \o <<"notes.txt">>) :> 13
    @@ (ModM2 \o <<"Endfield_Data", "a.bin">>) :> 21
    @@ (ModM2 \o <<"notes.txt">>) :> 23

\* <project>/mods with an asset mod, two config mods that both list "data/", the
\* first of which also replaces Endfield_Data/a.bin, and two flat folders named Foo
ModsDiskGate ==
    (ModM1 \o <<"Endfield_Data", "a.bin">>) :> 11
    @@ (ModB \o <<"manifest.json">>) :> ManifestConfigDir
    @@ (ModB \o <<"data", "x.ini">>) :> 21
    @@ (ModB \o <<"Endfield_Data", "a.bin">>) :> 22
    @@ (ModSkinFoo \o <<"manifest.json">>) :> ManifestConfigDir
    @@ (ModSkinFoo \o <<"data", "x.ini">>) :> 31
    @@ (ModSkinFoo \o <<"Texture", "t.dds">>) :> 32
    @@ (ModMiscFoo \o <<"Texture", "t.dds">>) :> 41

\* <project>/mods with two asset mods that share two destinations, a config mod that
\* lists a file it has and a file it lacks, and a config mod that lists a folder
ModsDiskDetect ==
    (ModM1 \o <<"Endfield_Data", "a.bin">>) :> 11
    @@ (ModM1 \o <<"resources", "r.txt">>) :> 12
    @@ (ModM2 \o <<"Endfield_Data", "a.bin">>) :> 11
    @@ (ModM2 \o <<"resources", "r.txt">>) :> 22
    @@ (ModA \o <<"manifest.json">>) :> ManifestConfigMissing
    @@ (ModA \o <<"settings.ini">>) :> 61
    @@ (ModB \o <<"manifest.json">>) :> ManifestConfigDir
    @@ (ModB \o <<"data", "x.ini">>) :> 21

\* the mods the list view shows: the rel_path of each ModInfo of scan_mods
ListedMods == {ModM1, ModM2, ModA, ModB, ModSkinFoo, ModMiscFoo}

\* the errors of a listed mod: scan_mods creates every ModInfo with errors = []
ModErrors(rel_path) == <<>>

GameFile(p, present, content) == IF present THEN p :> content ELSE EmptyTree

-----------------------------------------------------------------------------
(* config.py: AppConfig *)

\* AppConfig.is_enabled
IsEnabled(enabled, rel_path) == ReplaceBackslash(rel_path) \in Range(enabled)

\* list.remove(x): the first occurrence
RemoveFirst(s, x) ==
    LET i == CHOOSE j \in 1..Len(s) : s[j] = x /\ \A k \in 1..(j - 1) : s[k] # x
    IN  SubSeq(s, 1, i - 1) \o SubSeq(s, i + 1, Len(s))

\* AppConfig.set_enabled, the save included
SetEnabled(enabled, rel_path, on) ==
    LET rel == ReplaceBackslash(rel_path)
    IN  IF on /\ rel \notin Range(enabled) THEN Append(enabled, rel)
        ELSE IF ~on /\ rel \in Range(enabled) THEN RemoveFirst(enabled, rel)
        ELSE enabled

-----------------------------------------------------------------------------
(* gui.py: the handlers of MainWindow *)

\* MainWindow._enabled_mods_have_errors
EnabledModsHaveErrors(enabled) ==
    \E e \in Range(enabled) :
        ReplaceBackslash(e).segs \in ListedMods /\ ModErrors(ReplaceBackslash(e).segs) # <<>>

\* a deploy_all that does not ask the overlay-domain detector
DeployAllBlockedNoPathCheck(tree, enabled, exe) ==
    \/ ~exe
    \/ DetectEnabledAssetConflicts(tree, enabled) # <<>>
    \/ EnabledModsHaveErrors(enabled)

\* the checks of deploy_all before its try block (gui.py 612-632): TRUE when it
\* returns, or is ended by a detector's exception, before any effect
DeployAllBlocked(tree, enabled, exe) ==
    \/ ~exe
    \/ DetectEnabledPathConflicts(tree, enabled).raised
    \/ DetectEnabledPathConflicts(tree, enabled).conflicts # <<>>
    \/ DetectEnabledAssetConflicts(tree, enabled) # <<>>
    \/ EnabledModsHaveErrors(enabled)

\* the try block of deploy_all (gui.py 634-660): the disk after it
DeployAllEffects(tree, enabled, g, vfs, receipts, files_map, bk) ==
    LET built == BuildActive(tree, enabled)
        safe == DeployEndfieldModsafe(built, TRUE, enabled, g, vfs, receipts)
        migoto == Deploy3dmigotoFolderMods(built, enabled, safe.game)
        assets == DeployAssetsWithReceipt(built, enabled, migoto.game, files_map, bk)
    IN  IF BuildActiveRaises(tree, enabled)
        THEN [mods_root |-> built, game |-> g, safe_receipt |-> receipts,
              receipt |-> files_map, backup |-> bk]
        ELSE [mods_root |-> built, game |-> assets.game, safe_receipt |-> safe.receipts,
              receipt |-> assets.files, backup |-> assets.backup]

Ran(op) == last' = op /\ steps' = steps - 1

NoCycle ==
    [phase |-> "idle", n |-> 0, clean |-> TRUE, orig |-> EmptyTree, store |-> EmptyTree,
     ledger |-> EmptyReceipt]

\* ModListView.mousePressEvent on the check box of a listed mod: ModsModel.setData,
\* AppConfig.set_enabled and MainWindow.queue_build_active
Toggle(m) ==
    LET on == ~IsEnabled(enabled_mods, Entry(m))
    IN  /\ steps > 0
        /\ Exists(mods_root, m)
        /\ on => Len(enabled_mods) < MaxEnabled
        /\ IF ModErrors(m) # <<>> /\ on
           THEN UNCHANGED <<enabled_mods, build_timer>>
           ELSE /\ enabled_mods' = SetEnabled(enabled_mods, Entry(m), on)
                /\ build_timer' = TRUE
        /\ Ran("toggle")
        /\ UNCHANGED <<mods_root, active_exists, game_exe, game, vfs_exists, safe_receipt,
                       receipt, backup, out, cycle>>

\* the build timer fires: MainWindow._do_build_active
DoBuildActive ==
    /\ steps > 0
    /\ build_timer
    /\ build_timer' = FALSE
    /\ mods_root' = BuildActive(mods_root, enabled_mods)
    /\ active_exists' = TRUE
    /\ Ran("build")
    /\ UNCHANGED <<enabled_mods, game_exe, game, vfs_exists, safe_receipt, receipt,
                   backup, out, cycle>>

\* MainWindow.pick_game_exe with a file chosen
PickGameExe ==
    /\ ~game_exe
    /\ game_exe' = TRUE
    /\ last' = "pick_game_exe"
    /\ UNCHANGED <<mods_root, active_exists, enabled_mods, game, vfs_exists, safe_receipt,
                   receipt, backup, build_timer, out, cycle, steps>>

\* MainWindow.deploy_all
DeployAll ==
    LET blocked == DeployAllBlocked(mods_root, enabled_mods, game_exe)
        after == DeployAllEffects(mods_root, enabled_mods, game, vfs_exists,
                                  safe_receipt, receipt, backup)
    IN  /\ steps > 0
        /\ IF blocked
           THEN UNCHANGED <<mods_root, active_exists, game, safe_receipt, receipt, backup,
                            cycle>>
           ELSE /\ mods_root' = after.mods_root
                /\ active_exists' = TRUE
                /\ game' = after.game
                /\ safe_receipt' = after.safe_receipt
                /\ receipt' = after.receipt
                /\ backup' = after.backup
                /\ cycle' = IF cycle.phase = "deployed"
                            THEN [cycle EXCEPT !.n = 2]
                            ELSE [phase |-> "deployed", n |-> 1, clean |-> TRUE,
                                  orig |-> game, store |-> backup,
                                  ledger |-> EmptyReceipt]
        /\ Ran("deploy_all")
        /\ UNCHANGED <<enabled_mods, game_exe, vfs_exists, build_timer, out>>

\* MainWindow.restore_all
RestoreAll ==
    LET g == RestoreEndfieldModsafe(game, vfs_exists)
        r == RestoreAssetsWithReceipt(g, receipt, backup)
    IN  /\ steps > 0
        /\ game_exe
        /\ game' = r.game
        /\ receipt' = r.files
        /\ cycle' = IF cycle.phase = "deployed"
                    THEN [cycle EXCEPT !.phase = "restored", !.ledger = receipt]
                    ELSE NoCycle
        /\ Ran("restore_all")
        /\ UNCHANGED <<mods_root, active_exists, enabled_mods, game_exe, vfs_exists,
                       safe_receipt, backup, build_timer, out>>

\* the environment: a game update installs a new version of a shipped file
GameUpdate(p) ==
    /\ steps > 0
    /\ Cardinality({q \in DOMAIN game : game[q] = Updated}) < MaxUpdates
    /\ p \in DOMAIN game
    /\ game[p] # Updated
    /\ game' = [game EXCEPT ![p] = Updated]
    /\ cycle' = IF cycle.phase = "deployed" THEN [cycle EXCEPT !.clean = FALSE]
                ELSE NoCycle
    /\ Ran("game_update")
    /\ UNCHANGED <<mods_root, active_exists, enabled_mods, game_exe, vfs_exists,
                   safe_receipt, receipt, backup, build_timer, out>>

\* a fresh project, with the mods of ModsDisk installed, beside an untouched game
Init ==
    /\ mods_root = ModsDisk
    /\ active_exists = FALSE
    /\ enabled_mods = <<>>
    /\ game_exe = FALSE
    /\ \E a, r \in BOOLEAN :
          game = GameFile(GamePathA, a, Original) @@ GameFile(GamePathR, r, Original)
                 @@ (<<"Endfield.exe">> :> Original)
    /\ vfs_exists = FALSE
    /\ safe_receipt = NoSafeReceipt
    /\ receipt = EmptyReceipt
    /\ backup = EmptyTree
    /\ build_timer = FALSE
    /\ out = <<>>
    /\ last = "init"
    /\ cycle = NoCycle
    /\ steps = MaxSteps

Next ==
    \/ \E m \in ListedMods : Toggle(m)
    \/ DoBuildActive
    \/ PickGameExe
    \/ DeployAll
    \/ RestoreAll
    \/ \E p \in {GamePathA, GamePathR} : GameUpdate(p)

Spec == Init /\ [][Next]_vars

\* the same project with the mods of ModsDiskGate, beside a game that may already
\* hold a folder Mods/Foo and may have a VFS folder
InitGate ==
    /\ mods_root = ModsDiskGate
    /\ active_exists = FALSE
    /\ enabled_mods = <<>>
    /\ game_exe = FALSE
    /\ \E o \in BOOLEAN :
          game = GameFile(GamePathA, TRUE, Original) @@ GameFile(GameModsOld, o, Original)
                 @@ (<<"Endfield.exe">> :> Original)
    /\ vfs_exists \in BOOLEAN
    /\ safe_receipt = NoSafeReceipt
    /\ receipt = EmptyReceipt
    /\ backup = EmptyTree
    /\ build_timer = FALSE
    /\ out = <<>>
    /\ last = "init"
    /\ cycle = NoCycle
    /\ steps = MaxGateSteps

SpecGate == InitGate /\ [][Next]_vars

-----------------------------------------------------------------------------
(* The detectors on their own, as functions of mods_root and enabled_mods *)

\* spellings of enabled entries: as the GUI writes them, with backslashes, with a
\* trailing slash, and of a folder that is gone
EnabledSpellings ==
    {Entry(ModM1), [segs |-> ModM1, sep |-> "\\"], Entry(ModM2 \o <<"">>),
     Entry(ModA), Entry(ModB), Entry(<<"assets", "gone">>)}

EnabledLists == UNION {[1..n -> EnabledSpellings] : n \in 0..MaxListLen}

\* a call detect_enabled_path_conflicts(mods_root, enabled_mods), with the writers
\* it has collected when its loop ends
CallDetectPathConflicts ==
    LET w == PathWritersLoop(<<>>, mods_root, enabled_mods, 1)
        r == DetectEnabledPathConflicts(mods_root, enabled_mods)
    IN  /\ out' = [op |-> "detect_enabled_path_conflicts", raised |-> r.raised,
                   writers |-> w.writers, conflicts |-> r.conflicts]
        /\ last' = "detect_enabled_path_conflicts"
        /\ UNCHANGED <<mods_root, active_exists, enabled_mods, game_exe, game, vfs_exists,
                       safe_receipt, receipt, backup, build_timer, cycle, steps>>

\* a call detect_enabled_asset_conflicts(mods_root, enabled_mods)
CallDetectAssetConflicts ==
    /\ out' = [op |-> "detect_enabled_asset_conflicts",
               conflicts |-> DetectEnabledAssetConflicts(mods_root, enabled_mods)]
    /\ last' = "detect_enabled_asset_conflicts"
    /\ UNCHANGED <<mods_root, active_exists, enabled_mods, game_exe, game, vfs_exists,
                   safe_receipt, receipt, backup, build_timer, cycle, steps>>

InitDetect ==
    /\ mods_root \in {ModsDiskGate, ModsDiskDetect}
    /\ active_exists = FALSE
    /\ enabled_mods \in EnabledLists
    /\ game_exe = TRUE
    /\ game = (<<"Endfield.exe">> :> Original)
    /\ vfs_exists = FALSE
    /\ safe_receipt = NoSafeReceipt
    /\ receipt = EmptyReceipt
    /\ backup = EmptyTree
    /\ build_timer = FALSE
    /\ out = <<>>
    /\ last = "init"
    /\ cycle = NoCycle
    /\ steps = 0

NextDetect == CallDetectPathConflicts \/ CallDetectAssetConflicts

SpecDetect == InitDetect /\ [][NextDetect]_vars

-----------------------------------------------------------------------------
(* The receipt ledger: claims C1 to C5 *)

\* what tree holds at and beneath path p
At(tree, p) == Restrict(tree, Under(tree, p))

BackupRel(p) == <<ASSET_BACKUP_DIRNAME>> \o p

\* one deploy_all that ran, then restore_all, and nothing else wrote the game root
OneDeployRestored == cycle.phase = "restored" /\ cycle.n = 1 /\ cycle.clean

\* C1: a destination under an allow-listed root that existed with content X before
\* any deploy (so the backup store holds nothing for it) has content X again after
\* the deploy of one mod that writes it and restore, and the ledger is empty
RestoreRoundTrip ==
    OneDeployRestored =>
        /\ receipt = EmptyReceipt
        /\ \A p \in DOMAIN cycle.ledger :
              (IsFile(cycle.orig, p) /\ ~Exists(cycle.store, BackupRel(p)))
                  => (IsFile(game, p) /\ game[p] = cycle.orig[p])

RestoreRoundTripWitness ==
    /\ OneDeployRestored
    /\ last = "restore_all"
    /\ \E p \in DOMAIN cycle.ledger :
          /\ IsAllowedAssetRelpath(p)
          /\ IsFile(cycle.orig, p) /\ cycle.orig[p] = Original
          /\ ~Exists(cycle.store, BackupRel(p))
          /\ cycle.ledger[p].mods = <<ModM1>>
          /\ IsFile(backup, BackupRel(p)) /\ game[p] = Original

\* C2: a destination that did not exist before the deploy of one mod that creates
\* it is recorded in the ledger with no backup, and restore deletes it
NewFileCleanup ==
    /\ (cycle.phase = "deployed" /\ cycle.n = 1) =>
          \A p \in DOMAIN receipt :
              ~Exists(cycle.orig, p) => receipt[p].backup = NoBackup
    /\ OneDeployRestored =>
          \A p \in DOMAIN cycle.ledger :
              ~Exists(cycle.orig, p) =>
                  (cycle.ledger[p].backup = NoBackup /\ ~Exists(game, p))

NewFileCleanupWitness ==
    /\ OneDeployRestored
    /\ last = "restore_all"
    /\ \E p \in DOMAIN cycle.ledger :
          /\ ~Exists(cycle.orig, p)
          /\ cycle.ledger[p] = [backup |-> NoBackup, mods |-> <<ModM1>>]
          /\ ~Exists(game, p)

\* C3: while no restore runs, the backup field of a ledger entry and the content
\* backed up for it stay what the first deploy that touched the path made them
BackupOnce ==
    [][\A p \in (DOMAIN receipt) \cap (DOMAIN receipt') :
          /\ receipt'[p].backup = receipt[p].backup
          /\ At(backup', BackupRel(p)) = At(backup, BackupRel(p))]_vars

\* C4: after one or more deploys and one restore, every destination recorded in the
\* ledger is as it was before the first deploy: its content if it existed, else absent
ExactRestoration ==
    (cycle.phase = "restored" /\ cycle.clean) =>
        \A p \in DOMAIN cycle.ledger : At(game, p) = At(cycle.orig, p)

\* C5: when a deploy writes a destination that has no ledger entry and that exists
\* on disk, the backup recorded for it holds the content it had just before the write
CaptureOfCurrentState ==
    [][\A p \in (DOMAIN receipt') \ (DOMAIN receipt) :
          IsFile(game, p) =>
              /\ receipt'[p].backup = BackupRel(p)
              /\ IsFile(backup', BackupRel(p))
              /\ backup'[BackupRel(p)] = game[p]]_vars

-----------------------------------------------------------------------------
(* The whole deploy: claims C6 to C8 *)

\* what deploy_all may write
diskVars == <<mods_root, active_exists, game, safe_receipt, receipt, backup>>

\* C6: after any deploy_all runs and a restore_all, every file the game root held
\* before the first deploy is there again with its content, a folder Mods/<name>
\* that a folder-style mod of the same name replaced included
WholeTreeUndo ==
    (cycle.phase = "restored" /\ cycle.clean) =>
        \A p \in DOMAIN cycle.orig : IsFile(game, p) /\ game[p] = cycle.orig[p]

\* C7: when the overlay-domain detector or the asset-domain detector returns a
\* non-empty list for the enabled set, deploy_all changes nothing on disk: not the
\* overlay, the safe mount, the game's Mods folder, the game root, the ledger or
\* the backup store
ConflictGate ==
    [][(/\ last' = "deploy_all"
        /\ \/ DetectEnabledPathConflicts(mods_root, enabled_mods).conflicts # <<>>
           \/ DetectEnabledAssetConflicts(mods_root, enabled_mods) # <<>>)
       => UNCHANGED diskVars]_vars

ConflictGateWitness ==
    /\ last = "deploy_all"
    /\ game_exe
    /\ DetectEnabledPathConflicts(mods_root, enabled_mods).conflicts # <<>>
    /\ DetectEnabledAssetConflicts(mods_root, enabled_mods) = <<>>
    /\ ~active_exists
    /\ cycle = NoCycle

\* the destinations the three sub-deployments write for one enabled entry: the
\* overlay that is mounted, the flat folder Mods/<name>, the replaced game files
DeployDestinations(tree, e) ==
    LET mod_dir == ModFolder(RelNorm(e))
    IN  (DOMAIN BuildEntry(tree, e))
        \cup (IF Exists(tree, mod_dir) /\ LooksLikeMigotoModFolder(tree, mod_dir)
              THEN {ModsOut \o <<mod_dir[Len(mod_dir)]>> \o RelativeTo(p, mod_dir) :
                       p \in Under(tree, mod_dir)}
              ELSE {})
        \cup AssetFilesOf(tree, mod_dir)

\* two distinct enabled mods would write the same destination
WriteOverlap(tree, enabled) ==
    \E i, j \in DOMAIN enabled :
        /\ RelNorm(enabled[i]) # RelNorm(enabled[j])
        /\ DeployDestinations(tree, enabled[i]) \cap DeployDestinations(tree, enabled[j]) # {}

\* C8: when two distinct enabled mods would write the same destination in one of
\* the three sub-deployments, two folders of the same name in different categories
\* included, a conflict is reported and deploy_all does not run
EveryOverlapSurfaced ==
    [][(last' = "deploy_all" /\ WriteOverlap(mods_root, enabled_mods))
       => UNCHANGED diskVars]_vars

-----------------------------------------------------------------------------
(* The detectors: claims C9 and C10 *)

\* the enabled entry names a config mod whose manifest.json has a copy list with
\* entries: the mods build_active builds from the list that the detector reads
HasCopyList(tree, e) ==
    LET src == ModFolder(RelNorm(e))
        manifest == src \o <<"manifest.json">>
    IN  /\ Exists(tree, manifest)
        /\ BuildModType(tree, src) = "config"
        /\ ReadManifestJson(tree[manifest]).copy.kind = "list"
        /\ ReadManifestJson(tree[manifest]).copy.items # <<>>

\* the files build_active copies for the entries of the copy list of e, as paths
\* relative to mods/_active
BuiltFromCopyList(tree, e) ==
    {RelativeTo(p, ActiveRoot) : p \in DOMAIN BuildEntry(tree, e)}
    \ {ModFolder(RelNorm(e)) \o <<"manifest.json">>}

\* the mods build_active writes to the overlay-relative path q
BuilderMods(tree, enabled, q) ==
    {ModFolder(RelNorm(e)) :
        e \in {x \in Range(enabled) : HasCopyList(tree, x) /\ q \in BuiltFromCopyList(tree, x)}}

\* the mods detect_enabled_path_conflicts records for the key q
DetectorMods(writers, q) ==
    UNION {{ModFolder(m) : m \in Range(writers[i].mods)} :
              i \in {k \in DOMAIN writers : writers[k].path = q}}

OverlayPaths(tree, enabled, writers) ==
    {writers[i].path : i \in DOMAIN writers}
    \cup UNION {BuiltFromCopyList(tree, e) : e \in {x \in Range(enabled) : HasCopyList(tree, x)}}

\* C9: for every enabled list and every overlay-relative path, the mods build_active
\* writes to the path are the mods the overlay-domain detector records for it; stated
\* here for the case most in its favour, where every enabled mod is a config mod
\* with a copy list and the manifest.json the builder always copies is left aside
ConflictBuildAgreement ==
    (/\ out # <<>> /\ out.op = "detect_enabled_path_conflicts" /\ ~out.raised
     /\ \A e \in Range(enabled_mods) : HasCopyList(mods_root, e)) =>
        \A q \in OverlayPaths(mods_root, enabled_mods, out.writers) :
            BuilderMods(mods_root, enabled_mods, q) = DetectorMods(out.writers, q)

\* the enabled mods that hold a file at the mod-relative path q
AssetContributors(tree, enabled, q) ==
    {RelNorm(e) : e \in {x \in Range(enabled) :
                            /\ Exists(tree, ModFolder(RelNorm(x)))
                            /\ q \in AssetFilesOf(tree, ModFolder(RelNorm(x)))}}

AssetPaths(tree, enabled) ==
    UNION {AssetFilesOf(tree, ModFolder(RelNorm(e))) : e \in Range(enabled)}

\* C10: detect_enabled_asset_conflicts reports a path exactly when two or more
\* distinct enabled mods hold a file at it under an allow-listed root, each entry
\* holds these mods once each in sorted order, and the list is sorted by path
AssetDetectionExact ==
    (out # <<>> /\ out.op = "detect_enabled_asset_conflicts") =>
        LET c == out.conflicts
        IN  /\ {c[i].path : i \in DOMAIN c}
                  = {q \in AssetPaths(mods_root, enabled_mods) :
                        Cardinality(AssetContributors(mods_root, enabled_mods, q)) >= 2}
            /\ \A i \in DOMAIN c :
                  /\ Range(c[i].mods) = AssetContributors(mods_root, enabled_mods, c[i].path)
                  /\ \A j, k \in DOMAIN c[i].mods :
                        j < k => PathLess(c[i].mods[j], c[i].mods[k])
            /\ \A i, j \in DOMAIN c : i < j => PathLess(c[i].path, c[j].path)

AssetDetectionExactWitness ==
    /\ out # <<>> /\ out.op = "detect_enabled_asset_conflicts"
    /\ Len(enabled_mods) = 3
    /\ enabled_mods[1] = [segs |-> ModM1, sep |-> "\\"]
    /\ enabled_mods[2] = Entry(ModM2 \o <<"">>)
    /\ enabled_mods[3] = Entry(ModM1)
    /\ out.conflicts = <<[path |-> GamePathA, mods |-> <<ModM1, ModM2>>],
                         [path |-> GamePathR, mods |-> <<ModM1, ModM2>>]>>

-----------------------------------------------------------------------------
(* The builder on its own: build_active on the enabled lists a config.json *)
(* can hold, between toggles *)

\* <project>/mods with a config mod that lists one of its two files, a config mod
\* without a copy list and a folder without a manifest.json
ModsDiskBuild ==
    (ModA \o <<"manifest.json">>) :> ManifestConfigFile
    @@ (ModA \o <<"settings.ini">>) :> 61
    @@ (ModA \o <<"notes.txt">>) :> 62
    @@ (ModB \o <<"manifest.json">>) :> ManifestConfigNoCopy
    @@ (ModB \o <<"settings.ini">>) :> 71
    @@ (ModB \o <<"data", "x.ini">>) :> 72
    @@ (ModSkinFoo \o <<"Texture", "t.dds">>) :> 32

\* files outside <project>/mods: <project>/x/secret.txt and /abs/y.txt
OutsideDisk ==
    (<<"..", "x", "secret.txt">> :> 81) @@ (<<"/", "abs", "y.txt">> :> 82)

BuildTrees == {ModsDiskBuild @@ OutsideDisk}

\* entries of enabled_mods as AppConfig.load leaves them
BuildSpellings ==
    {Entry(ModA), Entry(ModB), Entry(ModSkinFoo), Entry(<<"configs", "gone">>),
     Entry(<<"_active">>), Entry(<<"_active", "configs", "A">>),
     Entry(<<"..", "x">>), Entry(<<"configs", "..", "..", "x">>), Entry(<<"", "abs">>)}

BuildLists == UNION {[1..n -> BuildSpellings] : n \in 0..MaxBuildListLen}

\* a call build_active(mods_root, enabled_mods), as _do_build_active and deploy_all
\* make it; out keeps the overlay it found and whether the call before was a build
CallBuildActive ==
    /\ mods_root' = BuildActive(mods_root, enabled_mods)
    /\ active_exists' = TRUE
    /\ out' = [op |-> "build_active", again |-> (last = "build_active"),
               before |-> Restrict(mods_root, Under(mods_root, ActiveRoot))]
    /\ last' = "build_active"
    /\ UNCHANGED <<enabled_mods, game_exe, game, vfs_exists, safe_receipt, receipt,
                   backup, build_timer, cycle, steps>>

InitBuild ==
    /\ mods_root \in BuildTrees
    /\ active_exists = FALSE
    /\ enabled_mods \in BuildLists
    /\ game_exe = FALSE
    /\ game = (<<"Endfield.exe">> :> Original)
    /\ vfs_exists = FALSE
    /\ safe_receipt = NoSafeReceipt
    /\ receipt = EmptyReceipt
    /\ backup = EmptyTree
    /\ build_timer = FALSE
    /\ out = <<>>
    /\ last = "init"
    /\ cycle = NoCycle
    /\ steps = MaxBuildSteps

NextBuild ==
    \/ \E m \in ListedMods : Toggle(m)
    \/ CallBuildActive

SpecBuild == InitBuild /\ [][NextBuild]_vars

-----------------------------------------------------------------------------
(* The builder: claims C11 to C15 *)

\* the overlay: what mods/_active holds, as paths relative to it
Overlay(tree) == [q \in {RelativeTo(p, ActiveRoot) : p \in Under(tree, ActiveRoot)} |->
                     tree[ActiveRoot \o q]]

\* the manifest.json of the mod folder is a JSON object with "type": "config"
\* and a copy list of exactly one entry
CopiesOneEntry(tree, mod) ==
    LET manifest == mod \o <<"manifest.json">>
    IN  /\ IsFile(tree, manifest)
        /\ ParseJson(tree[manifest]).kind = "object"
        /\ ParseJson(tree[manifest]).type = "config"
        /\ ParseJson(tree[manifest]).copy.kind = "list"
        /\ Len(ParseJson(tree[manifest]).copy.items) = 1

\* the mod folder has no manifest.json, or one that is a JSON object without "copy"
HasNoCopyList(tree, mod) ==
    LET manifest == mod \o <<"manifest.json">>
    IN  /\ Exists(tree, mod)
        /\ IsFile(tree, manifest) =>
              /\ ParseJson(tree[manifest]).kind = "object"
              /\ ParseJson(tree[manifest]).copy.kind = "absent"

\* C11: with a config mod A whose copy list is [f] and a mod B without a copy list
\* both enabled, the overlay-domain detector reports no conflict, and the overlay
\* holds under A exactly manifest.json and the existing entry f, and under B all of
\* B's folder
ScenarioConfigAB ==
    \A a, b \in ListedMods :
        (/\ last = "build_active"
         /\ {ModFolder(RelNorm(e)) : e \in Range(enabled_mods)} = {a, b}
         /\ CopiesOneEntry(mods_root, a)
         /\ HasNoCopyList(mods_root, b)) =>
            LET f == PathSegs(ParseJson(mods_root[a \o <<"manifest.json">>]).copy.items[1].segs)
                listed == Under(mods_root, a \o f) \cup {a \o <<"manifest.json">>}
            IN  /\ ~DetectEnabledPathConflicts(mods_root, enabled_mods).raised
                /\ DetectEnabledPathConflicts(mods_root, enabled_mods).conflicts = <<>>
                /\ Under(mods_root, ActiveRoot \o a) = {ActiveRoot \o p : p \in listed}
                /\ Under(mods_root, ActiveRoot \o b)
                      = {ActiveRoot \o p : p \in Under(mods_root, b)}
                /\ \A p \in listed \cup Under(mods_root, b) :
                      mods_root[ActiveRoot \o p] = mods_root[p]

ScenarioConfigABWitness ==
    /\ last = "build_active"
    /\ enabled_mods = <<Entry(ModB), Entry(ModA)>>
    /\ DOMAIN Overlay(mods_root)
          = {ModA \o <<"manifest.json">>, ModA \o <<"settings.ini">>,
             ModB \o <<"manifest.json">>, ModB \o <<"settings.ini">>,
             ModB \o <<"data", "x.ini">>}

\* C12: after a build, whatever toggles and builds came before, every file of the
\* overlay lies under the folder of a mod of the enabled list and is the copy of
\* that mod's file: nothing of a mod disabled since an earlier build remains
NoStaleContent ==
    last = "build_active" =>
        \A q \in DOMAIN Overlay(mods_root) :
            /\ \E e \in Range(enabled_mods) : IsPrefix(ModFolder(RelNorm(e)), q)
            /\ IsFile(mods_root, q)
            /\ Overlay(mods_root)[q] = mods_root[q]

NoStaleContentWitness ==
    /\ last = "build_active"
    /\ out.again = FALSE
    /\ out.before # EmptyTree
    /\ enabled_mods = <<Entry(ModB)>>
    /\ \E p \in DOMAIN out.before : IsPrefix(ActiveRoot \o ModA, p)
    /\ DOMAIN Overlay(mods_root) = Under(mods_root, ModB)

\* C13: a build called right after a build, with the same sources and the same
\* enabled list, leaves the overlay of the first: the same paths with the same
\* content
BuildIdempotence ==
    (out # <<>> /\ out.op = "build_active" /\ out.again) =>
        Restrict(mods_root, Under(mods_root, ActiveRoot)) = out.before

BuildIdempotenceWitness ==
    /\ out # <<>> /\ out.op = "build_active" /\ out.again
    /\ enabled_mods = <<Entry(ModA), Entry(ModSkinFoo)>>
    /\ DOMAIN out.before = {ActiveRoot \o ModA \o <<"manifest.json">>,
                            ActiveRoot \o ModA \o <<"settings.ini">>,
                            ActiveRoot \o ModSkinFoo \o <<"Texture", "t.dds">>}

-----------------------------------------------------------------------------
(* The builder on config mods whose copy lists hold ".." segments *)

\* <project>/mods with three config mods: A lists "..", B lists two entries with a
\* ".." before a "/", skins/Foo lists "Texture/.."
ModsDiskTraversal ==
    (ModA \o <<"manifest.json">>) :> ManifestConfigParent
    @@ (ModA \o <<"settings.ini">>) :> 61
    @@ (ModB \o <<"manifest.json">>) :> ManifestConfigInner
    @@ (ModB \o <<"settings.ini">>) :> 71
    @@ (ModB \o <<"data", "x.ini">>) :> 72
    @@ (ModSkinFoo \o <<"manifest.json">>) :> ManifestConfigTrailing
    @@ (ModSkinFoo \o <<"Texture", "t.dds">>) :> 32

TraversalLists ==
    UNION {[1..n -> {Entry(ModA), Entry(ModB), Entry(ModSkinFoo)}] : n \in 0..MaxBuildListLen}

InitTraversal ==
    /\ mods_root = ModsDiskTraversal
    /\ active_exists = FALSE
    /\ enabled_mods \in TraversalLists
    /\ game_exe = FALSE
    /\ game = (<<"Endfield.exe">> :> Original)
    /\ vfs_exists = FALSE
    /\ safe_receipt = NoSafeReceipt
    /\ receipt = EmptyReceipt
    /\ backup = EmptyTree
    /\ build_timer = FALSE
    /\ out = <<>>
    /\ last = "init"
    /\ cycle = NoCycle
    /\ steps = MaxBuildSteps

SpecTraversal == InitTraversal /\ [][NextBuild]_vars

\* the copy entries of the manifest.json of the mod folder, [] without a list
CopyEntriesOf(tree, mod) ==
    LET manifest == mod \o <<"manifest.json">>
    IN  IF IsFile(tree, manifest) /\ ParseJson(tree[manifest]).kind = "object"
           /\ ParseJson(tree[manifest]).copy.kind = "list"
        THEN ParseJson(tree[manifest]).copy.items
        ELSE <<>>

HasParentSegment(entry) == ".." \in Range(ReplaceBackslash(entry).segs)

\* C15: a build skips every copy entry with a ".." segment, wherever the segment
\* stands: the overlay holds files under enabled mod folders only, and under a
\* config mod with a copy list it holds the manifest.json and the files named by
\* entries without a ".." segment, nothing else
CopyTraversalRejection ==
    last = "build_active" =>
        \A q \in DOMAIN Overlay(mods_root) :
            \E e \in Range(enabled_mods) :
                LET mod == ModFolder(RelNorm(e))
                    items == CopyEntriesOf(mods_root, mod)
                IN  /\ IsPrefix(mod, q)
                    /\ items # <<>> =>
                          \/ q = mod \o <<"manifest.json">>
                          \/ \E i \in DOMAIN items :
                                /\ ~HasParentSegment(items[i])
                                /\ IsPrefix(mod \o PathSegs(ReplaceBackslash(items[i]).segs), q)

-----------------------------------------------------------------------------
(* Deploy and restore with a backup store that loses files *)

\* the environment: a file of <project>/deploy/backup is deleted
BackupLoss(b) ==
    /\ steps > 0
    /\ b \in DOMAIN backup
    /\ backup' = Restrict(backup, DOMAIN backup \ {b})
    /\ cycle' = IF cycle.phase = "deployed" THEN [cycle EXCEPT !.clean = FALSE]
                ELSE NoCycle
    /\ Ran("backup_loss")
    /\ UNCHANGED <<mods_root, active_exists, enabled_mods, game_exe, game, vfs_exists,
                   safe_receipt, receipt, build_timer, out>>

InitLoss ==
    /\ mods_root = ModsDisk
    /\ active_exists = FALSE
    /\ enabled_mods = <<>>
    /\ game_exe = FALSE
    /\ \E a, r \in BOOLEAN :
          game = GameFile(GamePathA, a, Original) @@ GameFile(GamePathR, r, Original)
                 @@ (<<"Endfield.exe">> :> Original)
    /\ vfs_exists = FALSE
    /\ safe_receipt = NoSafeReceipt
    /\ receipt = EmptyReceipt
    /\ backup = EmptyTree
    /\ build_timer = FALSE
    /\ out = <<>>
    /\ last = "init"
    /\ cycle = NoCycle
    /\ steps = MaxLossSteps

NextLoss ==
    \/ \E m \in ListedMods : Toggle(m)
    \/ DoBuildActive
    \/ PickGameExe
    \/ DeployAll
    \/ RestoreAll
    \/ \E b \in {BackupRel(GamePathA), BackupRel(GamePathR)} : BackupLoss(b)

SpecLoss == InitLoss /\ [][NextLoss]_vars

\* the ledger entry names a backup that is not in the backup store
BackupMissing(bk, entry) == entry.backup # NoBackup /\ ~Exists(bk, entry.backup)

\* C16: an asset restore leaves the destination of a ledger entry whose backup is
\* missing as it is, restores every other entry from its backup or removes what it
\* created, and ends with an empty ledger
BackupMissingHandling ==
    [][last' = "restore_all" =>
          /\ receipt' = EmptyReceipt
          /\ \A p \in DOMAIN receipt :
                IF BackupMissing(backup, receipt[p])
                THEN At(game', p) = At(game, p)
                ELSE IF receipt[p].backup = NoBackup
                THEN ~Exists(game', p)
                ELSE At(game', p) = Rebased(backup, receipt[p].backup, p)]_vars

BackupMissingHandlingWitness ==
    /\ last = "restore_all"
    /\ cycle.phase = "restored"
    /\ DOMAIN cycle.ledger = {GamePathA, GamePathR}
    /\ BackupMissing(backup, cycle.ledger[GamePathA])
    /\ ~BackupMissing(backup, cycle.ledger[GamePathR])
    /\ cycle.ledger[GamePathR].backup # NoBackup
    /\ game[GamePathA] = 11
    /\ game[GamePathR] = Original
    /\ receipt = EmptyReceipt

-----------------------------------------------------------------------------
(* deploy_all when the operating system refuses a write *)

SubDeployments == <<"safe-mount", "flat", "assets">>

\* the try block of deploy_all when the first write of sub-deployment number f raises
\* PermissionError or OSError: the except clause of deploy_all (gui.py 680-683) ends
\* the handler there, the calls after the one that raised are not made
DeployAllEffectsFailing(tree, enabled, g, vfs, receipts, files_map, bk, f) ==
    LET built == BuildActive(tree, enabled)
        safe == DeployEndfieldModsafe(built, TRUE, enabled, g, vfs, receipts)
        migoto == Deploy3dmigotoFolderMods(built, enabled, safe.game)
    IN  IF BuildActiveRaises(tree, enabled) \/ f = 1
        THEN [mods_root |-> built, game |-> g, safe_receipt |-> receipts,
              receipt |-> files_map, backup |-> bk]
        ELSE IF f = 2
        THEN [mods_root |-> built, game |-> safe.game, safe_receipt |-> safe.receipts,
              receipt |-> files_map, backup |-> bk]
        ELSE [mods_root |-> built, game |-> migoto.game, safe_receipt |-> safe.receipts,
              receipt |-> files_map, backup |-> bk]

\* MainWindow.deploy_all, one of its sub-deployments failing
DeployAllFailing(f) ==
    LET after == DeployAllEffectsFailing(mods_root, enabled_mods, game, vfs_exists,
                                         safe_receipt, receipt, backup, f)
    IN  /\ steps > 0
        /\ ~DeployAllBlocked(mods_root, enabled_mods, game_exe)
        /\ ~BuildActiveRaises(mods_root, enabled_mods)
        /\ mods_root' = after.mods_root
        /\ active_exists' = TRUE
        /\ game' = after.game
        /\ safe_receipt' = after.safe_receipt
        /\ receipt' = after.receipt
        /\ backup' = after.backup
        /\ cycle' = NoCycle
        /\ out' = [op |-> "deploy_all", failed |-> SubDeployments[f]]
        /\ Ran("deploy_all: failed")
        /\ UNCHANGED <<enabled_mods, game_exe, vfs_exists, build_timer>>

NextFail ==
    \/ \E m \in ListedMods : Toggle(m)
    \/ DoBuildActive
    \/ PickGameExe
    \/ DeployAll
    \/ RestoreAll
    \/ \E f \in DOMAIN SubDeployments : DeployAllFailing(f)

SpecFail == InitGate /\ [][NextFail]_vars

\* the game folder the flat deploy writes
GameModsRoot == <<"Mods">>

\* C17: when one sub-deployment of a deploy_all fails, each of the other two leaves
\* what it leaves in a deploy_all without the failure: the safe-mount folder and its
\* receipt, the folders under Mods, and the ledger, the backups and the replaced
\* game files
FailureIsolation ==
    [][last' = "deploy_all: failed" =>
          LET full == DeployAllEffects(mods_root, enabled_mods, game, vfs_exists,
                                       safe_receipt, receipt, backup)
              dest_active == GetModsafePaths(game, vfs_exists).dest_active
          IN  /\ out'.failed # "safe-mount" =>
                    /\ At(game', dest_active) = At(full.game, dest_active)
                    /\ safe_receipt' = full.safe_receipt
              /\ out'.failed # "flat" =>
                    At(game', GameModsRoot) = At(full.game, GameModsRoot)
              /\ out'.failed # "assets" =>
                    /\ receipt' = full.receipt
                    /\ backup' = full.backup
                    /\ \A p \in DOMAIN full.receipt : At(game', p) = At(full.game, p)]_vars

-----------------------------------------------------------------------------
(* Mods whose manifest.json is empty or malformed *)

\* <project>/mods with three mods: the manifest.json of A is no JSON, that of B is
\* JSON but no object, that of skins/Foo is empty
ModsDiskBad ==
    (ModA \o <<"manifest.json">>) :> ManifestInvalid
    @@ (ModA \o <<"settings.ini">>) :> 61
    @@ (ModB \o <<"manifest.json">>) :> ManifestNotObject
    @@ (ModB \o <<"data", "x.ini">>) :> 72
    @@ (ModSkinFoo \o <<"manifest.json">>) :> ManifestEmpty
    @@ (ModSkinFoo \o <<"Texture", "t.dds">>) :> 32

InitBad ==
    /\ mods_root = ModsDiskBad
    /\ active_exists = FALSE
    /\ enabled_mods \in TraversalLists
    /\ game_exe = TRUE
    /\ game = (<<"Endfield.exe">> :> Original)
    /\ vfs_exists = FALSE
    /\ safe_receipt = NoSafeReceipt
    /\ receipt = EmptyReceipt
    /\ backup = EmptyTree
    /\ build_timer = FALSE
    /\ out = <<>>
    /\ last = "init"
    /\ cycle = NoCycle
    /\ steps = MaxBuildSteps

NextBad ==
    \/ \E m \in ListedMods : Toggle(m)
    \/ CallBuildActive
    \/ CallDetectPathConflicts
    \/ CallDetectAssetConflicts
    \/ DeployAll

SpecBad == InitBad /\ [][NextBad]_vars

\* the mod folder has a manifest.json that is empty, no JSON, or JSON but no object
BadManifest(tree, mod) ==
    /\ IsFile(tree, mod \o <<"manifest.json">>)
    /\ ParseJson(tree[mod \o <<"manifest.json">>]).kind \in {"empty", "invalid", "other"}

BadEnabled == {ModFolder(RelNorm(e)) : e \in Range(enabled_mods)}
              \cap {m \in ListedMods : BadManifest(mods_root, m)}

\* C18: with an enabled mod whose manifest.json is empty or malformed, a build
\* copies the whole folder of the mod, the overlay-domain detector returns without
\* raising and records nothing for the mod, and deploy_all runs to its end: the
\* safe-mount folder holds the overlay it built
BadManifestNeverFatal ==
    BadEnabled # {} =>
        /\ last = "build_active" =>
              \A m \in BadEnabled :
                  At(mods_root, ActiveRoot \o m) = Rebased(mods_root, m, ActiveRoot \o m)
        /\ last = "detect_enabled_path_conflicts" =>
              ~out.raised /\ out.writers = <<>>
        /\ last = "deploy_all" =>
              LET dest_active == GetModsafePaths(game, vfs_exists).dest_active
              IN  /\ Exists(game, dest_active)
                  /\ At(game, dest_active) = Rebased(mods_root, ActiveRoot, dest_active)

-----------------------------------------------------------------------------
(* The asset deploy and the allow-listed roots: claim C19 *)

\* the path begins with the name of an allow-listed root
BeginsWithAllowedRoot(p) == p # <<>> /\ p[1] \in AllowedAssetRootsDeploy

\* C19: a deploy_all or restore_all of a project without flat mods leaves every file
\* of the game root outside the allow-listed roots as it is, and the ledger, the
\* backup store and the asset conflicts name paths under the allow-listed roots only
AllowListFrame ==
    [][last' \in {"deploy_all", "restore_all"} =>
          /\ \A p \in (DOMAIN game) \cup (DOMAIN game') :
                ~BeginsWithAllowedRoot(p) =>
                    p \in DOMAIN game /\ p \in DOMAIN game' /\ game'[p] = game[p]
          /\ \A p \in DOMAIN receipt' : BeginsWithAllowedRoot(p)
          /\ \A b \in DOMAIN backup' :
                BeginsWithAllowedRoot(RelativeTo(b, <<ASSET_BACKUP_DIRNAME>>))
          /\ LET conflicts == DetectEnabledAssetConflicts(mods_root, enabled_mods)
             IN  \A i \in DOMAIN conflicts : BeginsWithAllowedRoot(conflicts[i].path)]_vars

AllowListFrameWitness ==
    /\ last = "deploy_all"
    /\ enabled_mods = <<Entry(ModM1)>>
    /\ IsFile(mods_root, ModM1 \o <<"notes.txt">>)
    /\ IsFile(mods_root, ActiveRoot \o ModM1 \o <<"notes.txt">>)
    /\ DOMAIN receipt = {GamePathA, GamePathR}
    /\ game[GamePathA] = 11
    /\ game[GamePathR] = 12
    /\ {p \in DOMAIN game : ~BeginsWithAllowedRoot(p)} = {<<"Endfield.exe">>}

-----------------------------------------------------------------------------
(* The safe-mount folder after deploy_all: claim C20 *)

\* C20: after a deploy_all that passed its checks, the folder <backend>/<folder
\* name>/active holds the overlay build_active makes of the enabled list at that
\* moment, whether the overlay on disk was up to date or not, and nothing else
FreshExactOverlay ==
    [][(last' = "deploy_all" /\ ~DeployAllBlocked(mods_root, enabled_mods, game_exe)) =>
          LET dest_active == GetModsafePaths(game, vfs_exists).dest_active
          IN  At(game', dest_active)
                = Rebased(BuildActive(mods_root, enabled_mods), ActiveRoot, dest_active)]_vars

FreshExactOverlayWitness ==
    /\ last = "deploy_all"
    /\ cycle.phase = "deployed" /\ cycle.n = 2
    /\ build_timer
    /\ enabled_mods = <<Entry(ModMiscFoo)>>
    /\ DOMAIN At(game, GetModsafePaths(game, vfs_exists).dest_active)
          = {GetModsafePaths(game, vfs_exists).dest_active \o ModMiscFoo \o <<"Texture", "t.dds">>}

\* the files outside mods/_active
OutsideOverlay(tree) == Restrict(tree, {p \in DOMAIN tree : ~IsPrefix(ActiveRoot, p)})

\* C14: build skips every entry that names the reserved overlay folder or that
\* resolves outside the mod root (a ".." segment, an absolute path), so that it
\* creates or overwrites no file outside the overlay root, and copies no file from
\* outside the mod root
BuildConfinement ==
    [][last' = "build_active" =>
          /\ OutsideOverlay(mods_root') = OutsideOverlay(mods_root)
          /\ \A e \in Range(enabled_mods) :
                (\/ Head(ReplaceBackslash(e).segs) = "_active"
                 \/ ".." \in Range(ReplaceBackslash(e).segs)
                 \/ IsAbsolute(ReplaceBackslash(e).segs))
                    => BuildEntry(RmTree(mods_root, ActiveRoot), e) = EmptyTree]_vars

-----------------------------------------------------------------------------
(* The flat folder deploy: claims C21 and C22 *)

\* the enabled mod folders that exist and pass the marker test of the deployer
FlatMods(tree, enabled) ==
    {m \in {ModFolder(RelNorm(e)) : e \in Range(enabled)} :
        Exists(tree, m) /\ LooksLikeMigotoModFolder(tree, m)}

\* C21: after the flat deploy of a deploy_all, Mods/<folder name> is an exact copy of
\* the folder of every enabled mod that passes the marker test, the rest of Mods is
\* as it was, and the call counts no file exactly when no mod passed
FlatDeployEffect ==
    [][(last' = "deploy_all" /\ ~DeployAllBlocked(mods_root, enabled_mods, game_exe)) =>
          LET flat == FlatMods(mods_root, enabled_mods)
              dests == {ModsOut \o <<m[Len(m)]>> : m \in flat}
              r == Deploy3dmigotoFolderMods(mods_root, enabled_mods, game)
          IN  /\ \A m \in flat :
                    At(game', ModsOut \o <<m[Len(m)]>>)
                        = Rebased(mods_root, m, ModsOut \o <<m[Len(m)]>>)
              /\ \A p \in Under(game, ModsOut) \cup Under(game', ModsOut) :
                    (\A d \in dests : ~IsPrefix(d, p)) =>
                        p \in DOMAIN game /\ p \in DOMAIN game' /\ game'[p] = game[p]
              /\ (flat = {}) <=> (r.deployed = 0)
              /\ (flat = {}) => (r.total_files = 0)]_vars

-----------------------------------------------------------------------------
(* mods.py: the classifier *)

\* str.lower() on the names of the model
Lower(name) ==
    CASE name = "A" -> "a"
      [] name = "B" -> "b"
      [] name = "Buffer" -> "buffer"
      [] name = "Deep" -> "deep"
      [] name = "Endfield_Data" -> "endfield_data"
      [] name = "Foo" -> "foo"
      [] name = "Junk" -> "junk"
      [] name = "Kit" -> "kit"
      [] name = "M1" -> "m1"
      [] name = "Pack" -> "pack"
      [] name = "Shaders" -> "shaders"
      [] name = "Sub" -> "sub"
      [] name = "Texture" -> "texture"
      [] name = "TEXTURE" -> "texture"
      [] OTHER -> name

LowerPath(p) == [i \in 1..Len(p) |-> Lower(p[i])]

\* the ending of a lower-cased file name, on the file names of the model
Suffix(name) ==
    CASE name \in {"t.dds"} -> ".dds"
      [] name \in {"b.buf"} -> ".buf"
      [] name \in {"settings.ini", "x.ini", "old.ini", "gone.ini", "d3dx.ini",
                   "desktop.ini"} -> ".ini"
      [] name \in {"notes.txt", "r.txt", "secret.txt", "y.txt"} -> ".txt"
      [] name \in {"manifest.json"} -> ".json"
      [] OTHER -> ""

CATEGORY_FOLDERS == {"misc", "skins", "configs", "assets", "folders"}

NOT_A_MOD_FOLDER_NAMES ==
    {"texture", "textures", "buffer", "buffers", "shader", "shaders", "output",
     "outputs", "cache", "caches", "override", "overrides", "resources", "resource",
     "__pycache__"}

AllowedAssetRootsMods ==
    {"Endfield_Data", "resources", "game_files", "translations", "plugins"}

\* _has_any_suffix
HasAnySuffix(tree, root, suffixes) ==
    \E p \in Under(tree, root) : p # root /\ Suffix(Lower(p[Len(p)])) \in suffixes

\* _looks_like_migoto_mod_folder of mods.py
LooksLikeMigotoModFolderMods(tree, mod_dir) ==
    \/ Exists(tree, mod_dir \o <<"Texture">>) \/ Exists(tree, mod_dir \o <<"texture">>)
    \/ Exists(tree, mod_dir \o <<"Buffer">>) \/ Exists(tree, mod_dir \o <<"buffer">>)
    \/ Exists(tree, mod_dir \o <<"d3dx.ini">>)
    \/ HasAnySuffix(tree, mod_dir, {".dds", ".buf"})

\* _looks_like_asset_mod_folder
LooksLikeAssetModFolder(tree, mod_dir) ==
    \E root \in AllowedAssetRootsMods : Exists(tree, mod_dir \o <<root>>)

\* _looks_like_config_mod_folder
LooksLikeConfigModFolder(tree, mod_dir) ==
    HasAnySuffix(tree, mod_dir, {".ini", ".cfg", ".txt", ".json"})

\* _folder_has_any_file
FolderHasAnyFile(tree, mod_dir) ==
    \E p \in Under(tree, mod_dir) : p # mod_dir /\ Lower(p[Len(p)]) # "desktop.ini"

\* _is_container_folder: mods/ itself and the folders right under it
IsContainerFolder(mod_dir) == Len(mod_dir) <= 1

\* _is_subfolder_that_should_not_be_listed
IsSubfolderThatShouldNotBeListed(tree, mod_dir) ==
    LET name == Lower(mod_dir[Len(mod_dir)])
        parent == SubSeq(mod_dir, 1, Len(mod_dir) - 1)
    IN  \/ name \in NOT_A_MOD_FOLDER_NAMES
        \/ Len(mod_dir) = 1 /\ Lower(mod_dir[1]) \in CATEGORY_FOLDERS
        \/ LooksLikeMigotoModFolderMods(tree, parent) /\ name \in {"texture", "buffer"}

\* mods_root.rglob("*") with d.is_dir(): the folders beneath mods/
DirsOf(tree) ==
    UNION {{SubSeq(p, 1, k) : k \in 1..(Len(p) - 1)} :
              p \in {q \in DOMAIN tree : q[1] \notin {"..", "/"}}}

deny_names == {"_active", "__pycache__", ".git"}

\* the first loop of _iter_real_mod_folders (mods.py 136-155)
Candidates(tree) ==
    {d \in DirsOf(tree) :
        /\ d[Len(d)] \notin deny_names
        /\ \A k \in 1..(Len(d) - 1) : d[k] # "_active"
        /\ ~IsContainerFolder(d)
        /\ ~IsSubfolderThatShouldNotBeListed(tree, d)
        /\ FolderHasAnyFile(tree, d)}

LooksLikeMod(tree, d) ==
    \/ LooksLikeMigotoModFolderMods(tree, d)
    \/ LooksLikeAssetModFolder(tree, d)
    \/ LooksLikeConfigModFolder(tree, d)

\* a final loop that takes no folder for a container
HasChildCandidateNever(tree, d) == FALSE

\* d in c.parents for another candidate c
HasChildCandidate(tree, d) ==
    \E c \in Candidates(tree) : c # d /\ IsPrefix(d, c)

\* _iter_real_mod_folders: the folders of its result
IterRealModFolders(tree) ==
    {d \in Candidates(tree) : LooksLikeMod(tree, d) \/ ~HasChildCandidate(tree, d)}

\* the mod_type scan_mods gives a folder (mods.py 198-205)
ModTypeOf(tree, folder) ==
    IF LooksLikeMigotoModFolderMods(tree, folder) THEN "migoto"
    ELSE IF LooksLikeAssetModFolder(tree, folder) THEN "asset"
    ELSE IF LooksLikeConfigModFolder(tree, folder) THEN "config"
    ELSE "folder"

\* the ModInfo scan_mods makes of a folder (mods.py 207-215)
ModInfoOf(tree, folder) ==
    [name |-> folder[Len(folder)], rel_path |-> folder,
     mod_type |-> ModTypeOf(tree, folder), errors |-> <<>>]

TypeOrder(mod_type) ==
    CASE mod_type = "migoto" -> 0
      [] mod_type = "asset" -> 1
      [] mod_type = "config" -> 2
      [] mod_type = "folder" -> 3
      [] OTHER -> 99

\* the sort key of scan_mods (mods.py 218) of a is less than that of b
ModKeyLess(a, b) ==
    \/ TypeOrder(a.mod_type) < TypeOrder(b.mod_type)
    \/ /\ TypeOrder(a.mod_type) = TypeOrder(b.mod_type)
       /\ \/ SegRank(Lower(a.name)) < SegRank(Lower(b.name))
          \/ /\ Lower(a.name) = Lower(b.name)
             /\ PathLess(LowerPath(a.rel_path), LowerPath(b.rel_path))

\* the orders list.sort can leave a set of ModInfo in: sorted by the key; mods with
\* equal keys stay in the order of _iter_real_mod_folders, which for folders with
\* equal (len(parts), str.lower()) is the iteration order of a set of Path objects
\* (mods.py 157), an order that changes with the hash seed of the process
RECURSIVE SortedOrders(_)
SortedOrders(mods) ==
    IF mods = {} THEN {<<>>}
    ELSE UNION {{<<m>> \o s : s \in SortedOrders(mods \ {m})} :
                   m \in {x \in mods : \A y \in mods : ~ModKeyLess(y, x)}}

\* scan_mods: the lists it can return for a tree
ScanMods(tree) == SortedOrders({ModInfoOf(tree, d) : d \in IterRealModFolders(tree)})

\* scan_mods of src/launcher/core/mods.py, the manifest-driven classifier: the
\* ModInfo it makes of one manifest.json
LegacyModInfoOf(tree, manifest) ==
    LET folder == SubSeq(manifest, 1, Len(manifest) - 1)
        data == ParseJson(tree[manifest])
    IN  IF data.kind \in {"empty", "invalid"}
        THEN [name |-> folder[Len(folder)], rel_path |-> folder,
              mod_type |-> "unknown", errors |-> <<"manifest.json parse error">>]
        ELSE [name |-> folder[Len(folder)], rel_path |-> folder,
              mod_type |-> IF data.kind = "object" /\ data.type # "" THEN data.type
                           ELSE "folder",
              errors |-> <<>>]

\* scan_mods of src/launcher/core/mods.py: data.get on a manifest that is JSON but
\* no object raises outside the try block and ends the scan
ScanModsLegacy(tree) ==
    LET manifests == {p \in DOMAIN tree : /\ Len(p) >= 2
                                          /\ p[Len(p)] = "manifest.json"
                                          /\ "_active" \notin Range(p)
                                          /\ p[1] \notin {"..", "/"}}
    IN  IF \E p \in manifests : ParseJson(tree[p]).kind = "other"
        THEN [raised |-> TRUE, mods |-> {}]
        ELSE [raised |-> FALSE, mods |-> {LegacyModInfoOf(tree, p) : p \in manifests}]

-----------------------------------------------------------------------------
(* The classifier on its own, as a function of the tree under mods/ *)

ModFoo == <<"skins", "foo">>
ModShaders == <<"skins", "Shaders">>
ModPack == <<"skins", "Pack">>
ModPackSub == <<"skins", "Pack", "Sub">>
ModJunk == <<"misc", "Junk">>

\* the groups of files a tree under mods/ is made of
ScanGroups ==
    << (ModSkinFoo \o <<"Texture", "t.dds">>) :> 32
          @@ (ModSkinFoo \o <<"Buffer", "b.buf">>) :> 33
          @@ (ActiveRoot \o ModSkinFoo \o <<"Texture", "t.dds">>) :> 32,
       (ModFoo \o <<"texture", "notes.txt">>) :> 34,
       (ModShaders \o <<"Texture", "t.dds">>) :> 35
          @@ (ModShaders \o <<"Buffer", "b.buf">>) :> 36,
       (ModPack \o <<"a.bin">>) :> 37,
       (ModPackSub \o <<"a.bin">>) :> 38,
       (ModPackSub \o <<"Deep", "t.dds">>) :> 39,
       (ModM1 \o <<"Endfield_Data", "a.bin">>) :> 11
          @@ (ModM1 \o <<"manifest.json">>) :> ManifestEmpty,
       (ModA \o <<"manifest.json">>) :> ManifestInvalid
          @@ (ModA \o <<"settings.ini">>) :> 61
          @@ (ModJunk \o <<"desktop.ini">>) :> 40,
       (ModB \o <<"manifest.json">>) :> ManifestNotObject
          @@ (ModB \o <<"data", "x.ini">>) :> 72,
       (ModPackSub \o <<"Deep", "a.bin">>) :> 41 >>

RECURSIVE MergeGroups(_)
MergeGroups(S) ==
    IF S = {} THEN EmptyTree
    ELSE LET i == CHOOSE j \in S : TRUE
         IN  Merge(ScanGroups[i], MergeGroups(S \ {i}))

ScanTrees == {MergeGroups(S) : S \in SUBSET DOMAIN ScanGroups}

\* a call scan_mods(mods_root), as MainWindow.refresh makes it; out keeps the list
\* of the call before when that was a scan too
CallScanMods ==
    \E mods \in ScanMods(mods_root) :
        /\ out' = [op |-> "scan_mods", mods |-> mods,
                   again |-> (last = "scan_mods"),
                   before |-> IF last = "scan_mods" THEN out.mods ELSE <<>>]
        /\ last' = "scan_mods"
        /\ UNCHANGED <<mods_root, active_exists, enabled_mods, game_exe, game, vfs_exists,
                       safe_receipt, receipt, backup, build_timer, cycle, steps>>

\* a call of the scan_mods of src/launcher/core/mods.py
CallScanModsLegacy ==
    /\ out' = [op |-> "scan_mods: legacy", raised |-> ScanModsLegacy(mods_root).raised,
               mods |-> ScanModsLegacy(mods_root).mods]
    /\ last' = "scan_mods: legacy"
    /\ UNCHANGED <<mods_root, active_exists, enabled_mods, game_exe, game, vfs_exists,
                   safe_receipt, receipt, backup, build_timer, cycle, steps>>

InitScan ==
    /\ mods_root \in ScanTrees
    /\ active_exists = FALSE
    /\ enabled_mods = <<>>
    /\ game_exe = FALSE
    /\ game = (<<"Endfield.exe">> :> Original)
    /\ vfs_exists = FALSE
    /\ safe_receipt = NoSafeReceipt
    /\ receipt = EmptyReceipt
    /\ backup = EmptyTree
    /\ build_timer = FALSE
    /\ out = <<>>
    /\ last = "init"
    /\ cycle = NoCycle
    /\ steps = 0

NextScan == CallScanMods \/ CallScanModsLegacy

SpecScan == InitScan /\ [][NextScan]_vars

-----------------------------------------------------------------------------
(* The claims on the classifier *)

\* the folders a scan listed
Listed == {out.mods[i].rel_path : i \in DOMAIN out.mods}

\* C22: the marker test of the deployer and the one of the classifier agree on every
\* mod folder: a listed mod has type migoto exactly when the flat deploy would copy it
MarkerTestAgreement ==
    last = "scan_mods" =>
        \A i \in DOMAIN out.mods :
            (out.mods[i].mod_type = "migoto")
                <=> LooksLikeMigotoModFolder(mods_root, out.mods[i].rel_path)

\* C23: a second scan of the unchanged tree returns the list of the first, in the
\* same order
ClassificationDeterminism ==
    (last = "scan_mods" /\ out.again) => out.mods = out.before

\* C24: a folder two or more levels below mods/ that holds Texture/ and Buffer/ is
\* listed as migoto and neither child is listed; mods/ and the folders right under
\* it are never listed
ContainmentCorrectness ==
    last = "scan_mods" =>
        /\ \A d \in DirsOf(mods_root) :
              (/\ Len(d) >= 2
               /\ "_active" \notin Range(d)
               /\ Exists(mods_root, d \o <<"Texture">>)
               /\ Exists(mods_root, d \o <<"Buffer">>))
                  => /\ \E i \in DOMAIN out.mods :
                            out.mods[i].rel_path = d /\ out.mods[i].mod_type = "migoto"
                     /\ (d \o <<"Texture">>) \notin Listed
                     /\ (d \o <<"Buffer">>) \notin Listed
        /\ \A d \in Listed : Len(d) >= 2

\* C26: a mod folder whose manifest.json is empty or is no JSON is listed with type
\* unknown and with errors, and no manifest makes a scan raise
ClassifierErrorState ==
    /\ last = "scan_mods" =>
          \A d \in DirsOf(mods_root) :
              (/\ Len(d) >= 2
               /\ "_active" \notin Range(d)
               /\ (d \o <<"manifest.json">>) \in DOMAIN mods_root
               /\ ParseJson(mods_root[d \o <<"manifest.json">>]).kind
                      \in {"empty", "invalid"})
                  => \E i \in DOMAIN out.mods :
                        /\ out.mods[i].rel_path = d
                        /\ out.mods[i].mod_type = "unknown"
                        /\ out.mods[i].errors # <<>>
    /\ last = "scan_mods: legacy" => ~out.raised

\* C29: no folder beneath a listed folder of type migoto or asset is listed
InternalsNotListed ==
    last = "scan_mods" =>
        \A i, j \in DOMAIN out.mods :
            (/\ out.mods[i].mod_type \in {"migoto", "asset"}
             /\ IsPrefix(out.mods[i].rel_path, out.mods[j].rel_path))
                => i = j

\* C30: a candidate that passes none of the three tests is listed exactly when no
\* candidate beneath it is listed
PureContainerRule ==
    last = "scan_mods" =>
        \A d \in Candidates(mods_root) :
            ~LooksLikeMod(mods_root, d) =>
                ((d \in Listed) <=>
                    ~\E c \in Candidates(mods_root) :
                        c # d /\ IsPrefix(d, c) /\ c \in Listed)

\* a scan dropped a container whose candidate child was dropped as a container too
PureContainerNested ==
    /\ last = "scan_mods"
    /\ \E d, c \in Candidates(mods_root) :
          /\ c # d /\ IsPrefix(d, c)
          /\ ~LooksLikeMod(mods_root, d) /\ ~LooksLikeMod(mods_root, c)
          /\ d \notin Listed /\ c \notin Listed
          /\ \E e \in Listed : e # c /\ IsPrefix(c, e)

-----------------------------------------------------------------------------
(* The build timer: claim C25 *)

MaxDebounceSteps == 4

\* the interval of _build_timer.start(300), in ticks of the clock of the model
QuietTicks == 2

\* a timer that is left running when start is called while it runs
TimerStartKeepsRunning(t) ==
    IF t.pending > 0 THEN t ELSE [t EXCEPT !.pending = 1, !.remaining = QuietTicks]

\* QTimer.start(300) of the one timer object: starts it, or stops and restarts it
TimerStart(t) == [t EXCEPT !.pending = 1, !.remaining = QuietTicks]

\* the timer before the first toggle; out holds the timer and the history of the
\* run of toggles: pending timeouts, ticks left, ticks since the last toggle, the
\* rebuilds since the last toggle and the toggles of the run
TimerIdle == [pending |-> 0, remaining |-> 0, since |-> QuietTicks, builds |-> 0, burst |-> 0]

\* Toggle, with the timer kept in out
ToggleTimed(m) ==
    LET on == ~IsEnabled(enabled_mods, Entry(m))
        running == out.pending > 0 /\ out.remaining > 0
    IN  /\ steps > 0
        /\ Exists(mods_root, m)
        /\ on => Len(enabled_mods) < MaxEnabled
        /\ IF ModErrors(m) # <<>> /\ on
           THEN UNCHANGED <<enabled_mods, build_timer, out>>
           ELSE /\ enabled_mods' = SetEnabled(enabled_mods, Entry(m), on)
                /\ out' = [TimerStart(out) EXCEPT !.since = 0, !.builds = 0,
                              !.burst = IF running THEN @ + 1 ELSE 1]
                /\ build_timer' = (out'.pending > 0)
        /\ Ran("toggle")
        /\ UNCHANGED <<mods_root, active_exists, game_exe, game, vfs_exists, safe_receipt,
                       receipt, backup, cycle>>

\* time passes while the timer runs
Tick ==
    /\ out.pending > 0
    /\ out.remaining > 0
    /\ out' = [out EXCEPT !.remaining = @ - 1,
                          !.since = IF @ < QuietTicks THEN @ + 1 ELSE @]
    /\ last' = "tick"
    /\ UNCHANGED <<mods_root, active_exists, enabled_mods, game_exe, game, vfs_exists,
                   safe_receipt, receipt, backup, build_timer, cycle, steps>>

\* the timeout of the single-shot timer, with the tree its build leaves
TimerTimeout(built) ==
    /\ out.pending > 0
    /\ out.remaining = 0
    /\ out' = [out EXCEPT !.pending = 0, !.builds = @ + 1]
    /\ build_timer' = FALSE
    /\ mods_root' = built
    /\ active_exists' = TRUE
    /\ last' = "build"
    /\ UNCHANGED <<enabled_mods, game_exe, game, vfs_exists, safe_receipt, receipt,
                   backup, cycle, steps>>

\* a timeout that builds the list the configuration held when the window was made
BuildTimerFiresStale == TimerTimeout(BuildActive(mods_root, <<>>))

\* the timeout of the single-shot timer: MainWindow._do_build_active
BuildTimerFires == TimerTimeout(BuildActive(mods_root, enabled_mods))

\* the trees a build can leave of ModsDisk
BuiltOverlays ==
    {BuildActive(ModsDisk, e) :
        e \in UNION {[1..n -> {Entry(m) : m \in ListedMods}] : n \in 0..MaxEnabled}}

InitDebounce ==
    /\ mods_root = ModsDisk
    /\ active_exists = FALSE
    /\ enabled_mods = <<>>
    /\ game_exe = FALSE
    /\ game = (<<"Endfield.exe">> :> Original)
    /\ vfs_exists = FALSE
    /\ safe_receipt = NoSafeReceipt
    /\ receipt = EmptyReceipt
    /\ backup = EmptyTree
    /\ build_timer = FALSE
    /\ out = TimerIdle
    /\ last = "init"
    /\ cycle = NoCycle
    /\ steps = MaxDebounceSteps

NextDebounce ==
    \/ \E m \in ListedMods : ToggleTimed(m)
    \/ Tick
    \/ BuildTimerFires

\* the clock advances and the event loop delivers the timeout of a running timer
SpecDebounce ==
    /\ InitDebounce /\ [][NextDebounce]_vars
    /\ WF_vars(Tick)
    /\ WF_vars(\E built \in BuiltOverlays : TimerTimeout(built))

\* C25: the toggles of a run, each arriving while the timer runs, bring one rebuild:
\* at most one timeout is pending, a toggle runs no rebuild, a rebuild runs only
\* when the interval has passed since the last toggle and is the only one since that
\* toggle, and a pending timeout leads to a rebuild
DebounceCoalescing ==
    /\ [](out.pending <= 1 /\ out.builds <= 1 /\ build_timer = (out.pending = 1))
    /\ [][last' = "toggle" => mods_root' = mods_root]_vars
    /\ [][last' = "build" =>
             /\ out.since = QuietTicks
             /\ out'.builds = 1 /\ out'.pending = 0
             /\ mods_root' = BuildActive(mods_root, enabled_mods)]_vars
    /\ (out.pending = 1) ~> (last = "build")

\* the rebuild of a run of three toggles, the later two arriving while the timer ran
DebounceBurstRebuilt ==
    /\ last = "build"
    /\ out.burst = 3
    /\ out.builds = 1
    /\ Len(enabled_mods) = 1

\* C38: a toggle that starts the timer leads to a rebuild, and once the toggles have
\* stopped the tree under mods is, from some time on, the one build_active leaves of
\* the enabled list as it is then, with no timeout pending
DebounceLiveness ==
    /\ (last = "toggle" /\ build_timer) ~> (last = "build")
    /\ <>[](out.burst > 0 =>
               /\ ~build_timer
               /\ active_exists
               /\ mods_root = BuildActive(mods_root, enabled_mods))

\* the second rebuild, after two toggles a quiet interval apart: both mods are built
DebounceSettled ==
    /\ last = "build"
    /\ ~build_timer
    /\ out.burst = 1
    /\ enabled_mods = <<Entry(ModM1), Entry(ModM2)>>
    /\ (ActiveRoot \o ModM1 \o GamePathA) \in DOMAIN mods_root
    /\ (ActiveRoot \o ModM2 \o GamePathA) \in DOMAIN mods_root

-----------------------------------------------------------------------------
(* A build that fails part-way: claim C28 *)

\* build_active when the copy of entry k fails with an OSError after it has written
\* the files part of that entry: the overlay root was deleted, the entries before k
\* were built, and the exception ends the loop
BuildActiveFailing(tree, enabled, k, part) ==
    LET before == BuildLoop(RmTree(tree, ActiveRoot), SubSeq(enabled, 1, k - 1), 1)
    IN  IF before.raised THEN before.tree
        ELSE Merge(before.tree, Restrict(BuildEntry(before.tree, enabled[k]), part))

\* a call build_active(mods_root, enabled_mods) during which a copy fails
CallBuildActiveFailing ==
    \E k \in 1..Len(enabled_mods) :
        LET wiped == RmTree(mods_root, ActiveRoot)
            copy == BuildEntry(wiped, enabled_mods[k])
        IN  /\ copy # EmptyTree
            /\ \E part \in (SUBSET DOMAIN copy) \ {DOMAIN copy} :
                  mods_root' = BuildActiveFailing(mods_root, enabled_mods, k, part)
            /\ active_exists' = TRUE
            /\ out' = [op |-> "build_active: failed", again |-> (last = "build_active"),
                       before |-> Restrict(mods_root, Under(mods_root, ActiveRoot))]
            /\ last' = "build_active: failed"
            /\ UNCHANGED <<enabled_mods, game_exe, game, vfs_exists, safe_receipt, receipt,
                           backup, build_timer, cycle, steps>>

NextBuildFailing ==
    \/ \E m \in ListedMods : Toggle(m)
    \/ CallBuildActive
    \/ CallBuildActiveFailing

SpecBuildFailing == InitBuild /\ [][NextBuildFailing]_vars

\* C28: a build that fails part-way, right after a build that succeeded, leaves the
\* overlay of that build
NeverPartiallyWritten ==
    [][(/\ last = "build_active"
        /\ ~BuildActiveRaises(mods_root, enabled_mods)
        /\ last' = "build_active: failed")
          => At(mods_root', ActiveRoot) = At(mods_root, ActiveRoot)]_vars

-----------------------------------------------------------------------------
(* src/launcher/gui.py, the launcher whose scan gives mods errors: claim C27 *)

\* a click on the check box of a mod of the list: ModsModel.setData of
\* src/launcher/gui.py, which asks for the role only, and AppConfig.set_enabled
ToggleLegacy ==
    /\ last \in {"scan_mods: legacy", "toggle: legacy"}
    /\ ~out.raised
    /\ \E m \in out.mods :
          LET on == ~IsEnabled(enabled_mods, Entry(m.rel_path))
          IN  /\ on => Len(enabled_mods) < MaxEnabled
              /\ enabled_mods' = SetEnabled(enabled_mods, Entry(m.rel_path), on)
    /\ last' = "toggle: legacy"
    /\ UNCHANGED <<mods_root, active_exists, game_exe, game, vfs_exists, safe_receipt,
                   receipt, backup, build_timer, out, cycle, steps>>

NextLegacy == CallScanModsLegacy \/ ToggleLegacy

SpecLegacy == InitScan /\ [][NextLegacy]_vars

-----------------------------------------------------------------------------
(* Folders named like the internals of a mod: claim C31 *)

ModKit == <<"skins", "Kit">>

\* the groups of files of the trees with folders named texture or buffer
NameGroups ==
    << (ModKit \o <<"TEXTURE", "a.bin">>) :> 42,
       (ModKit \o <<"t.dds">>) :> 43,
       (ModKit \o <<"TEXTURE", "notes.txt">>) :> 44,
       (ModSkinFoo \o <<"Texture", "t.dds">>) :> 32,
       (ModSkinFoo \o <<"buffer", "notes.txt">>) :> 45,
       (ModPack \o <<"a.bin">>) :> 37,
       (ModA \o <<"settings.ini">>) :> 61 >>

RECURSIVE MergeNameGroups(_)
MergeNameGroups(S) ==
    IF S = {} THEN EmptyTree
    ELSE LET i == CHOOSE j \in S : TRUE
         IN  Merge(NameGroups[i], MergeNameGroups(S \ {i}))

NameTrees == {MergeNameGroups(S) : S \in SUBSET DOMAIN NameGroups}

InitNames ==
    /\ mods_root \in NameTrees
    /\ active_exists = FALSE
    /\ enabled_mods = <<>>
    /\ game_exe = FALSE
    /\ game = (<<"Endfield.exe">> :> Original)
    /\ vfs_exists = FALSE
    /\ safe_receipt = NoSafeReceipt
    /\ receipt = EmptyReceipt
    /\ backup = EmptyTree
    /\ build_timer = FALSE
    /\ out = <<>>
    /\ last = "init"
    /\ cycle = NoCycle
    /\ steps = 0

SpecNames == InitNames /\ [][CallScanMods]_vars

\* C31: a folder with files whose lower-cased name is texture or buffer is left out
\* of the candidates exactly when its parent passes the migoto test
NameCollisionException ==
    last = "scan_mods" =>
        \A d \in DirsOf(mods_root) :
            (/\ Len(d) >= 2
             /\ "_active" \notin Range(d)
             /\ Lower(d[Len(d)]) \in {"texture", "buffer"}
             /\ FolderHasAnyFile(mods_root, d))
                => ((d \notin Candidates(mods_root))
                      <=> LooksLikeMigotoModFolderMods(mods_root,
                                                       SubSeq(d, 1, Len(d) - 1)))

-----------------------------------------------------------------------------
(* The keys of the overlay-domain detector: claim C32 *)

\* <project>/mods with two config mods that list the file settings.ini and two that
\* list the folder data/
ModsDiskKeying ==
    (ModA \o <<"manifest.json">>) :> ManifestConfigFile
    @@ (ModA \o <<"settings.ini">>) :> 61
    @@ (ModMiscFoo \o <<"manifest.json">>) :> ManifestConfigFile
    @@ (ModMiscFoo \o <<"settings.ini">>) :> 46
    @@ (ModB \o <<"manifest.json">>) :> ManifestConfigDir
    @@ (ModB \o <<"data", "x.ini">>) :> 21
    @@ (ModSkinFoo \o <<"manifest.json">>) :> ManifestConfigDir
    @@ (ModSkinFoo \o <<"data", "x.ini">>) :> 31

KeyingLists ==
    UNION {[1..n -> {Entry(ModA), [segs |-> ModA, sep |-> "\\"], Entry(ModMiscFoo),
                     Entry(ModB), Entry(ModSkinFoo)}] : n \in 0..MaxListLen}

InitKeying ==
    /\ mods_root = ModsDiskKeying
    /\ active_exists = FALSE
    /\ enabled_mods \in KeyingLists
    /\ game_exe = TRUE
    /\ game = (<<"Endfield.exe">> :> Original)
    /\ vfs_exists = FALSE
    /\ safe_receipt = NoSafeReceipt
    /\ receipt = EmptyReceipt
    /\ backup = EmptyTree
    /\ build_timer = FALSE
    /\ out = <<>>
    /\ last = "init"
    /\ cycle = NoCycle
    /\ steps = 0

SpecKeying == InitKeying /\ [][CallDetectPathConflicts]_vars

\* C32: every file a copy entry names is recorded under its path relative to the
\* folder of the mod, with the mod among its writers, so two enabled mods that list
\* the same file are a conflict on that path
UniformKeying ==
    (last = "detect_enabled_path_conflicts" /\ ~out.raised) =>
        /\ \A i \in DOMAIN enabled_mods :
              LET rel == RelNorm(enabled_mods[i])
                  folder == ModFolder(rel)
                  entries == ListManifestCopyPaths(mods_root, folder).paths
              IN  \A k \in DOMAIN entries :
                      IsFile(mods_root, folder \o PathSegs(entries[k])) =>
                          \E w \in Range(out.writers) :
                              w.path = PathSegs(entries[k]) /\ rel \in Range(w.mods)
        /\ ({ModA, ModMiscFoo} \subseteq {RelNorm(e) : e \in Range(enabled_mods)}) =>
              \E c \in Range(out.conflicts) :
                  c.path = <<"settings.ini">> /\ {ModA, ModMiscFoo} \subseteq Range(c.mods)

-----------------------------------------------------------------------------
(* The whole-folder copy of the builder: claim C33 *)

\* <project>/mods with a mod for each way to the whole-folder copy, and skins/Pack,
\* a config mod with a copy list
ModsDiskFallback ==
    (ModSkinFoo \o <<"Texture", "t.dds">>) :> 32
    @@ (ModM1 \o <<"manifest.json">>) :> ManifestEmpty
    @@ (ModM1 \o <<"Endfield_Data", "a.bin">>) :> 11
    @@ (ModM2 \o <<"manifest.json">>) :> ManifestInvalid
    @@ (ModM2 \o <<"resources", "r.txt">>) :> 22
    @@ (ModJunk \o <<"manifest.json">>) :> ManifestNotObject
    @@ (ModJunk \o <<"a.bin">>) :> 47
    @@ (ModA \o <<"manifest.json">>) :> ManifestFolderFile
    @@ (ModA \o <<"settings.ini">>) :> 61
    @@ (ModA \o <<"notes.txt">>) :> 62
    @@ (ModB \o <<"manifest.json">>) :> ManifestConfigNoCopy
    @@ (ModB \o <<"settings.ini">>) :> 71
    @@ (ModB \o <<"data", "x.ini">>) :> 72
    @@ (ModMiscFoo \o <<"manifest.json">>) :> ManifestConfigEmptyCopy
    @@ (ModMiscFoo \o <<"settings.ini">>) :> 46
    @@ (ModMiscFoo \o <<"d3dx.ini">>) :> 48
    @@ (ModKit \o <<"manifest.json">>) :> ManifestConfigCopyString
    @@ (ModKit \o <<"x">>) :> 49
    @@ (ModKit \o <<"notes.txt">>) :> 65
    @@ (ModPack \o <<"manifest.json">>) :> ManifestConfigFile
    @@ (ModPack \o <<"settings.ini">>) :> 66
    @@ (ModPack \o <<"notes.txt">>) :> 67

FallbackMods == {ModSkinFoo, ModM1, ModM2, ModJunk, ModA, ModB, ModMiscFoo, ModKit, ModPack}

FallbackLists ==
    UNION {[1..n -> {Entry(m) : m \in FallbackMods}] : n \in 0..MaxBuildListLen}

InitFallback ==
    /\ mods_root = ModsDiskFallback
    /\ active_exists = FALSE
    /\ enabled_mods \in FallbackLists
    /\ game_exe = FALSE
    /\ game = (<<"Endfield.exe">> :> Original)
    /\ vfs_exists = FALSE
    /\ safe_receipt = NoSafeReceipt
    /\ receipt = EmptyReceipt
    /\ backup = EmptyTree
    /\ build_timer = FALSE
    /\ out = <<>>
    /\ last = "init"
    /\ cycle = NoCycle
    /\ steps = 0

SpecFallback == InitFallback /\ [][CallBuildActive]_vars

\* the manifest of the mod is missing, is no JSON object, declares no type config,
\* or has a copy that is absent, empty or no list
IsFallbackCase(tree, m) ==
    LET manifest == m \o <<"manifest.json">>
    IN  \/ ~Exists(tree, manifest)
        \/ ParseJson(tree[manifest]).kind # "object"
        \/ ParseJson(tree[manifest]).type # "config"
        \/ ParseJson(tree[manifest]).copy.kind # "list"
        \/ ParseJson(tree[manifest]).copy.items = <<>>

\* C33: after a build the overlay subtree of every enabled mod with such a manifest
\* equals the source folder of the mod
WholeFolderFallback ==
    [][last' = "build_active" =>
          \A i \in DOMAIN enabled_mods :
              LET m == RelNorm(enabled_mods[i])
              IN  IsFallbackCase(mods_root, m) =>
                      At(mods_root', ActiveRoot \o m)
                          = Rebased(mods_root, m, ActiveRoot \o m)]_vars

\* a build of a mod whose copy is a string, beside a config mod built from its list
WholeFolderFallbackWitness ==
    /\ last = "build_active"
    /\ enabled_mods = <<Entry(ModKit), Entry(ModPack)>>
    /\ DOMAIN At(mods_root, ActiveRoot \o ModKit)
          = {ActiveRoot \o ModKit \o <<f>> : f \in {"manifest.json", "x", "notes.txt"}}
    /\ (ActiveRoot \o ModPack \o <<"notes.txt">>) \notin DOMAIN mods_root
    /\ (ActiveRoot \o ModPack \o <<"settings.ini">>) \in DOMAIN mods_root

-----------------------------------------------------------------------------
(* restore_all when the operating system refuses a write: claim C34 *)

\* MainWindow.restore_all when shutil.copy2 of the backup of ledger entry f raises
\* PermissionError: the loop of restore_assets_with_receipt ends there, the ledger is
\* not cleared, and the except clause of restore_all (gui.py 702-703) ends the
\* handler.  done holds the entries before f in the order of the ledger file, which
\* the ledger of the model does not keep: every order is taken
RestoreAllFailing(f, done) ==
    LET g == RestoreEndfieldModsafe(game, vfs_exists)
    IN  /\ steps > 0
        /\ game_exe
        /\ f \in DOMAIN receipt
        /\ receipt[f].backup # NoBackup
        /\ Exists(backup, receipt[f].backup)
        /\ done \subseteq (DOMAIN receipt \ {f})
        /\ game' = RestoreAssetsLoop(g, backup, receipt, done)
        /\ cycle' = NoCycle
        /\ out' = [op |-> "restore_all", failed |-> f, done |-> done]
        /\ Ran("restore_all: failed")
        /\ UNCHANGED <<mods_root, active_exists, enabled_mods, game_exe, vfs_exists,
                       safe_receipt, receipt, backup, build_timer>>

NextRestoreFail ==
    \/ \E m \in ListedMods : Toggle(m)
    \/ DoBuildActive
    \/ PickGameExe
    \/ DeployAll
    \/ RestoreAll
    \/ \E f \in DOMAIN receipt : \E done \in SUBSET (DOMAIN receipt) :
          RestoreAllFailing(f, done)

SpecRestoreFail == InitLoss /\ [][NextRestoreFail]_vars

\* C34: when the copy of the backup of one ledger entry fails, every other entry is
\* restored from its backup, removed or skipped as it is without the failure
RestoreEntriesIndependent ==
    [][last' = "restore_all: failed" =>
          LET g == RestoreEndfieldModsafe(game, vfs_exists)
          IN  \A p \in DOMAIN receipt \ {out'.failed} :
                  At(game', p) = At(RestoreAssetEntry(g, backup, p, receipt[p]), p)]_vars

-----------------------------------------------------------------------------
(* The ledger after a deploy that returns: claim C35 *)

\* C35: after a deploy_all that was not stopped, the ledger has an entry for every
\* allow-listed file of every enabled mod folder, the entry lists that mod, no entry
\* lists a mod twice, and every entry and every mod of the ledger before the deploy
\* is still there
LedgerCoversWrites ==
    [][(last' = "deploy_all" /\ ~DeployAllBlocked(mods_root, enabled_mods, game_exe)) =>
          /\ \A i \in DOMAIN enabled_mods :
                LET rel_norm == RelNorm(enabled_mods[i])
                IN  \A q \in Under(mods_root, rel_norm) :
                        LET p == RelativeTo(q, rel_norm)
                        IN  p[1] \in AllowedAssetRootsDeploy =>
                                /\ p \in DOMAIN receipt'
                                /\ rel_norm \in Range(receipt'[p].mods)
                                /\ game'[p] = mods_root[q]
          /\ \A p \in DOMAIN receipt' :
                \A i, j \in DOMAIN receipt'[p].mods :
                    receipt'[p].mods[i] = receipt'[p].mods[j] => i = j
          /\ \A p \in DOMAIN receipt :
                /\ p \in DOMAIN receipt'
                /\ Range(receipt[p].mods) \subseteq Range(receipt'[p].mods)]_vars

\* a second deploy, of another mod: the entry of Endfield_Data/a.bin lists both mods,
\* and the entry of resources/r.txt, which only the first deploy wrote, is still there
LedgerCoversWritesWitness ==
    /\ last = "deploy_all"
    /\ enabled_mods = <<Entry(ModM2)>>
    /\ GamePathA \in DOMAIN receipt
    /\ receipt[GamePathA].mods = <<ModM1, ModM2>>
    /\ GamePathR \in DOMAIN receipt
    /\ receipt[GamePathR].mods = <<ModM1>>
    /\ game[GamePathA] = 21

-----------------------------------------------------------------------------
(* An asset deploy that fails part-way: claim C36 *)

\* deploy_assets_with_receipt when shutil.copy2 of file f of enabled mod k raises an
\* OSError after the files part of that mod were written: the mods before k were
\* deployed, the original of f was backed up (deploy.py 410), and the exception
\* leaves the function before _save_asset_receipt (430), so that the ledger file
\* stays as it was
DeployAssetsFailing(tree, enabled, g, files_map, bk, k, part, f) ==
    LET rel_norm == RelNorm(enabled[k])
        mod_dir == ModFolder(rel_norm)
        before == DeployAssetsLoop([game |-> g, files |-> files_map, backup |-> bk,
                                    copied |-> 0],
                                   tree, SubSeq(enabled, 1, k - 1), 1)
        st == DeployAssetFiles(before, tree, rel_norm, mod_dir, part)
    IN  [game |-> st.game, files |-> files_map,
         backup |-> BackupOriginalOnce(st.game, st.backup, f).store]

\* the destinations the mods before k and the files part of mod k are written to
WrittenBefore(tree, enabled, k, part) ==
    part \cup UNION {AssetFilesOf(tree, ModFolder(RelNorm(enabled[i]))) : i \in 1..(k - 1)}

\* MainWindow.deploy_all, its asset deploy failing part-way
DeployAllAssetsFailing ==
    LET built == BuildActive(mods_root, enabled_mods)
        safe == DeployEndfieldModsafe(built, TRUE, enabled_mods, game, vfs_exists,
                                      safe_receipt)
        migoto == Deploy3dmigotoFolderMods(built, enabled_mods, safe.game)
    IN  /\ steps > 0
        /\ ~DeployAllBlocked(mods_root, enabled_mods, game_exe)
        /\ ~BuildActiveRaises(mods_root, enabled_mods)
        /\ \E k \in DOMAIN enabled_mods :
              LET files == AssetFilesOf(built, ModFolder(RelNorm(enabled_mods[k])))
              IN  \E f \in files : \E part \in SUBSET (files \ {f}) :
                      LET after == DeployAssetsFailing(built, enabled_mods, migoto.game,
                                                       receipt, backup, k, part, f)
                      IN  /\ game' = after.game
                          /\ receipt' = after.files
                          /\ backup' = after.backup
                          /\ out' = [op |-> "deploy_all", failed |-> "assets",
                                     enabled |-> enabled_mods,
                                     written |-> WrittenBefore(built, enabled_mods, k, part),
                                     before |-> migoto.game,
                                     after |-> after.game, store |-> after.backup]
        /\ mods_root' = built
        /\ active_exists' = TRUE
        /\ safe_receipt' = safe.receipts
        /\ cycle' = NoCycle
        /\ Ran("deploy_all: assets failed")
        /\ UNCHANGED <<enabled_mods, game_exe, vfs_exists, build_timer>>

NextAssetsFail ==
    \/ \E m \in ListedMods : Toggle(m)
    \/ PickGameExe
    \/ DeployAll
    \/ RestoreAll
    \/ DeployAllAssetsFailing

SpecAssetsFail == InitLoss /\ [][NextAssetsFail]_vars

\* the restore_all that follows the failed deploy
RestoreAfterFailedDeploy ==
    [][(last = "deploy_all: assets failed" /\ last' = "restore_all") =>
          \A p \in out.written : At(game', p) = At(out.before, p)]_vars

\* the restore_all that follows a deploy_all of the same mods on the disk the failed
\* deploy left
RestoreAfterRepeatedDeploy ==
    [][(/\ last = "deploy_all" /\ last' = "restore_all"
        /\ DOMAIN out = {"op", "failed", "enabled", "written", "before", "after", "store"}
        /\ out.enabled = enabled_mods
        /\ cycle.phase = "deployed" /\ cycle.n = 1 /\ cycle.clean
        /\ cycle.orig = out.after /\ cycle.store = out.store) =>
          \A p \in out.written : At(game', p) = At(out.before, p)]_vars

\* C36: the destinations an asset deploy wrote before it failed are, after the
\* restore_all that follows, or after a deploy_all and a restore_all that follow, as
\* they were before the failed deploy
LedgerCoversFailedDeploy == RestoreAfterFailedDeploy /\ RestoreAfterRepeatedDeploy

-----------------------------------------------------------------------------
(* The backend probe between deploy and restore: claim C37 *)

\* the environment: the game creates Endfield_Data/Persistent/VFS, the folder
\* _pick_backend_root looks for first (deploy.py 64-66)
VfsAppears ==
    /\ steps > 0
    /\ ~vfs_exists
    /\ vfs_exists' = TRUE
    /\ cycle' = IF cycle.phase = "deployed" THEN [cycle EXCEPT !.clean = FALSE]
                ELSE NoCycle
    /\ Ran("vfs_appears")
    /\ UNCHANGED <<mods_root, active_exists, enabled_mods, game_exe, game, safe_receipt,
                   receipt, backup, build_timer, out>>

NextVfs == Next \/ VfsAppears

SpecVfs == InitGate /\ [][NextVfs]_vars

\* the overlay folder below the root of a backend
DestActiveOf(backend) ==
    (IF backend = "vfs" THEN VfsRoot ELSE StreamingAssetsRoot) \o <<FolderName, "active">>

\* C37: after a restore_all no file is left in the overlay folder of a backend that
\* a safe-mount deploy wrote a receipt for
RestoreRemovesDeployedOverlay ==
    [][last' = "restore_all" =>
          \A b \in DOMAIN safe_receipt : Under(game', DestActiveOf(b)) = {}]_vars

-----------------------------------------------------------------------------
(* core/config.py on the lists a file can hold: claim C39 *)

\* the enabled list AppConfig.load and AppConfig.load_preset make of the list of a
\* file (config.py 26-29, 97-101)
LoadEnabled(file_list) == [i \in DOMAIN file_list |-> ReplaceBackslash(file_list[i])]

\* the lists of a config.json or preset_<name>.json: written by this or an earlier
\* launcher, or by hand
ConfigFileLists == EnabledLists

\* a call cfg.set_enabled(rel_path, on)
CallSetEnabled(rel_path, on) ==
    /\ enabled_mods' = SetEnabled(enabled_mods, rel_path, on)
    /\ out' = [op |-> "set_enabled", rel_path |-> rel_path, on |-> on]
    /\ last' = "set_enabled"
    /\ UNCHANGED <<mods_root, active_exists, game_exe, game, vfs_exists, safe_receipt,
                   receipt, backup, build_timer, cycle, steps>>

\* a call cfg.load_preset(name), the preset file holding file_list
CallLoadPreset(file_list) ==
    /\ enabled_mods' = LoadEnabled(file_list)
    /\ out' = [op |-> "load_preset", rel_path |-> Entry(<<>>), on |-> FALSE]
    /\ last' = "load_preset"
    /\ UNCHANGED <<mods_root, active_exists, game_exe, game, vfs_exists, safe_receipt,
                   receipt, backup, build_timer, cycle, steps>>

InitConfig ==
    /\ mods_root = ModsDisk
    /\ active_exists = FALSE
    /\ enabled_mods \in {LoadEnabled(f) : f \in ConfigFileLists}
    /\ game_exe = FALSE
    /\ game = (<<"Endfield.exe">> :> Original)
    /\ vfs_exists = FALSE
    /\ safe_receipt = NoSafeReceipt
    /\ receipt = EmptyReceipt
    /\ backup = EmptyTree
    /\ build_timer = FALSE
    /\ out = <<>>
    /\ last = "init"
    /\ cycle = NoCycle
    /\ steps = 0

NextConfig ==
    \/ \E m \in {Entry(ModM1), [segs |-> ModM1, sep |-> "\\"], Entry(ModM2)} :
          \E on \in BOOLEAN : CallSetEnabled(m, on)
    \/ \E f \in ConfigFileLists : CallLoadPreset(f)

SpecConfig == InitConfig /\ [][NextConfig]_vars

\* C39: after set_enabled(p, False) the enabled list, which is the list the
\* configuration file holds, does not contain p
DisableDisables ==
    (last = "set_enabled" /\ ~out.on) => ~IsEnabled(enabled_mods, out.rel_path)

-----------------------------------------------------------------------------
(* The order of the enabled list in a build: claim C40 *)

\* <project>/mods with a folder mod, a config mod nested in it and a config mod
\* beside them
ModsDiskOrder ==
    (ModPack \o <<"a.bin">>) :> 37
    @@ (ModPackSub \o <<"manifest.json">>) :> ManifestConfigFile
    @@ (ModPackSub \o <<"settings.ini">>) :> 66
    @@ (ModPackSub \o <<"notes.txt">>) :> 67
    @@ (ModA \o <<"manifest.json">>) :> ManifestConfigFile
    @@ (ModA \o <<"settings.ini">>) :> 61
    @@ (ModA \o <<"notes.txt">>) :> 62

\* entries of enabled_mods: the two nested folders, a file of a mod folder, and the
\* folder <project>/x by its path from mods and by the name its copy gets in mods
OrderSpellings ==
    {Entry(ModPack), Entry(ModPackSub), Entry(ModA \o <<"settings.ini">>),
     Entry(<<"..", "x">>), Entry(<<"x">>)}

OrderLists == UNION {[1..n -> OrderSpellings] : n \in 0..MaxListLen}

InitOrder ==
    /\ mods_root = ModsDiskOrder @@ OutsideDisk
    /\ active_exists = FALSE
    /\ enabled_mods \in OrderLists
    /\ game_exe = FALSE
    /\ game = (<<"Endfield.exe">> :> Original)
    /\ vfs_exists = FALSE
    /\ safe_receipt = NoSafeReceipt
    /\ receipt = EmptyReceipt
    /\ backup = EmptyTree
    /\ build_timer = FALSE
    /\ out = <<>>
    /\ last = "init"
    /\ cycle = NoCycle
    /\ steps = 0

SpecOrder == InitOrder /\ [][CallBuildActive]_vars

\* C40: the first build of an enabled list leaves the overlay that the build of
\* every list of the same entries leaves, in whatever order and with whatever repeats
OrderIndependence ==
    [][(last = "init" /\ last' = "build_active") =>
          \A e \in OrderLists :
              Range(e) = Range(enabled_mods) =>
                  At(BuildActive(mods_root, e), ActiveRoot) = At(mods_root', ActiveRoot)]_vars

====
